---- MODULE Spec2Model ----
(***************************************************************************)
(* Model of the Kubernetes Pod security analyzer (src/src/yaml_analyzer.py) *)
(* and of the data it reads (src/src/security_data.py, src/src/schema.py).  *)
(*                                                                         *)
(* Python values are tagged records, so that the dynamic typing the rules  *)
(* depend on ("is True", "== 0", "in", truthiness) is computed as Python   *)
(* computes it.  A Python exception is the record [raise |-> <type>].      *)
(* A dict is the sequence of its <<key, value>> pairs in insertion order.  *)
(***************************************************************************)
EXTENDS Integers, Sequences, FiniteSets, TLC

\* the call of the analyzer (or of the version registry) and its result
VARIABLES op, yaml_content, kubernetes_version, field_name, value, result

\* a repeated analysis: the hash seed of the interpreter process, and the
\* result of the second call
VARIABLES hash_seed, result2

\* the deprecated_in the catalog of the analyzer gives to one of its fields
VARIABLES deprecation

\* the versioned vector store: the collections of the persistent backend (name
\* -> chunks), the instance's cache of version collections (version -> name),
\* and the outcome of the store call just made
VARIABLES collections, version_collections, store_result

\* threads inside get_version_collection: the position, the version and the
\* handle of each, and the get_or_create requests the backend has received
VARIABLES callers, requests

\* the analyze-pod endpoint: the request, the state of the narrative backend,
\* and the response
VARIABLES rag_request, llm_backend, rag_response

\* the crawler: the position and the locals of crawl_version
VARIABLES crawler

\* the checklist: the call made on a problem tree, the tree and the outcome
VARIABLES checklist

analyzerVars ==
    <<op, yaml_content, kubernetes_version, field_name, value, result, hash_seed, result2,
      deprecation>>

storeVars == <<collections, version_collections, store_result>>

callerVars == <<callers, requests>>

ragVars == <<rag_request, llm_backend, rag_response>>

nonAnalyzerVars == <<storeVars, callerVars, ragVars, crawler, checklist>>

nonStoreVars == <<analyzerVars, callerVars, ragVars, crawler, checklist>>

nonRagVars == <<analyzerVars, storeVars, callerVars, crawler, checklist>>

nonCrawlerVars == <<analyzerVars, storeVars, callerVars, ragVars, checklist>>

nonChecklistVars == <<analyzerVars, storeVars, callerVars, ragVars, crawler>>

vars == <<analyzerVars, storeVars, callerVars, ragVars, crawler, checklist>>

----------------------------------------------------------------------------
(* Bounds of the explored inputs.                                          *)

\* the security settings of one generated manifest
MaxFields == 2

\* the containers of one generated manifest
MaxContainers == 2

\* the hash seeds an interpreter process can start with (0 .. NumHashSeeds - 1)
NumHashSeeds == 2

\* the chunks the backend holds at most
MaxChunks == 3

\* the distances of a chunk to the query (1 .. MaxDistance)
MaxDistance == 2

\* the n_results of a search (1 .. MaxResults)
MaxResults == 1

\* the threads that call get_version_collection at the same time
NumCallers == 2

\* the delays a crawler is constructed with (1 .. MaxDelay, in seconds)
MaxDelay == 2

\* the items of a problem tree, the root included
MaxItems == 3

----------------------------------------------------------------------------
(* Python values.                                                          *)

PyNone == [t |-> "none"]

PyBool(b) == [t |-> "bool", b |-> b]

PyInt(i) == [t |-> "int", i |-> i]

PyStr(s) == [t |-> "str", s |-> s]

PyList(l) == [t |-> "list", l |-> l]

PyDict(d) == [t |-> "dict", d |-> d]

PyTrue == PyBool(TRUE)

PyFalse == PyBool(FALSE)

Raise(e) == [raise |-> e]

IsRaise(x) == "raise" \in DOMAIN x

Range(s) == {s[i] : i \in DOMAIN s}

\* bool(v): None, False, 0, "", [] and {} are falsy, everything else truthy
Truthy(v) ==
    CASE v.t = "none" -> FALSE
      [] v.t = "bool" -> v.b
      [] v.t = "int" -> v.i # 0
      [] v.t = "str" -> v.s # ""
      [] v.t = "list" -> v.l # <<>>
      [] v.t = "dict" -> v.d # <<>>

\* v is True / v is False: identity with the bool singletons
IsTrue(v) == v.t = "bool" /\ v.b

IsFalse(v) == v.t = "bool" /\ ~v.b

\* v == 0: an int 0, and also False, because bool is a subclass of int
EqZero(v) == (v.t = "int" /\ v.i = 0) \/ (v.t = "bool" /\ ~v.b)

\* v > 0 is defined on int and bool; on None, str, list and dict it raises
\* TypeError
Ordered(v) == v.t \in {"int", "bool"}

GtZero(v) == IF v.t = "int" THEN v.i > 0 ELSE v.b

\* the pairs <<haystack, needle>> of the strings used here in which needle is
\* a proper, non-empty substring of haystack
ProperSubstrings ==
    { <<"no spec here", "spec">>, <<"drop ALL", "drop">>, <<"drop ALL", "ALL">> }

Contains(hay, needle) ==
    needle = "" \/ hay = needle \/ <<hay, needle>> \in ProperSubstrings

Keys(d) == {d[i][1] : i \in DOMAIN d}

\* key in v raises TypeError unless v is a container or a str
Iterable(v) == v.t \in {"dict", "list", "str"}

\* key in v, for a str key and an iterable v: dict -> key test,
\* list -> element test, str -> substring test
In(key, v) ==
    CASE v.t = "dict" -> key \in Keys(v.d)
      [] v.t = "list" -> PyStr(key) \in Range(v.l)
      [] v.t = "str" -> Contains(v.s, key)

\* v[key] for a str key: only a dict can be indexed by a str (list and str
\* indices must be integers: TypeError)
Subscriptable(v) == v.t = "dict"

GetItem(v, key) ==
    LET i == CHOOSE j \in DOMAIN v.d : v.d[j][1] = key IN v.d[i][2]

RECURSIVE Join(_, _)
Join(strs, sep) ==
    IF strs = <<>> THEN ""
    ELSE IF Len(strs) = 1 THEN strs[1]
    ELSE strs[1] \o sep \o Join(Tail(strs), sep)

\* repr(v)
RECURSIVE Repr(_)
Repr(v) ==
    CASE v.t = "none" -> "None"
      [] v.t = "bool" -> IF v.b THEN "True" ELSE "False"
      [] v.t = "int" -> ToString(v.i)
      [] v.t = "str" -> "'" \o v.s \o "'"
      [] v.t = "list" -> "[" \o Join([i \in DOMAIN v.l |-> Repr(v.l[i])], ", ") \o "]"
      [] v.t = "dict" ->
            "{" \o Join([i \in DOMAIN v.d |->
                           "'" \o v.d[i][1] \o "': " \o Repr(v.d[i][2])], ", ") \o "}"

\* str(v), as an f-string formats {v}
Format(v) == IF v.t = "str" THEN v.s ELSE Repr(v)

----------------------------------------------------------------------------
(* Version strings are sequences of characters, so that split('.') and     *)
(* int() are computed, not assumed.                                        *)

Digits == <<"0", "1", "2", "3", "4", "5", "6", "7", "8", "9">>

IsDigit(c) == \E d \in DOMAIN Digits : Digits[d] = c

DigitValue(c) == (CHOOSE d \in DOMAIN Digits : Digits[d] = c) - 1

\* str.split(sep) for a one-character separator
RECURSIVE Split(_, _, _)
Split(s, sep, cur) ==
    IF s = <<>> THEN <<cur>>
    ELSE IF Head(s) = sep THEN <<cur>> \o Split(Tail(s), sep, <<>>)
    ELSE Split(Tail(s), sep, Append(cur, Head(s)))

RECURSIVE DigitsValue(_, _)
DigitsValue(s, acc) ==
    IF s = <<>> THEN acc ELSE DigitsValue(Tail(s), 10 * acc + DigitValue(Head(s)))

AllDigits(s) == s # <<>> /\ \A i \in DOMAIN s : IsDigit(s[i])

\* int(x) accepts an optional sign followed by decimal digits (the strings used
\* here hold no whitespace and no underscore); anything else is a ValueError
IntParses(s) ==
    \/ AllDigits(s)
    \/ s # <<>> /\ Head(s) \in {"+", "-"} /\ AllDigits(Tail(s))

IntValue(s) ==
    IF Head(s) = "-" THEN 0 - DigitsValue(Tail(s), 0)
    ELSE IF Head(s) = "+" THEN DigitsValue(Tail(s), 0)
    ELSE DigitsValue(s, 0)

Max(a, b) == IF a >= b THEN a ELSE b

RECURSIVE CompareParts(_, _, _, _)
CompareParts(v1_parts, v2_parts, i, n) ==
    IF i > n THEN 0
    ELSE LET v1_part == IF i <= Len(v1_parts) THEN v1_parts[i] ELSE 0
             v2_part == IF i <= Len(v2_parts) THEN v2_parts[i] ELSE 0
         IN  IF v1_part < v2_part THEN -1
             ELSE IF v1_part > v2_part THEN 1
             ELSE CompareParts(v1_parts, v2_parts, i + 1, n)

\* int(x) succeeds for every component of version.split('.')
version_parses(version) ==
    LET p == Split(version, ".", <<>>) IN \A i \in DOMAIN p : IntParses(p[i])

\* _version_compare with the loop over range(min(len(v1_parts), len(v2_parts)))
version_compare_common_parts(version1, version2) ==
    LET p1 == Split(version1, ".", <<>>)
        p2 == Split(version2, ".", <<>>)
    IN  CompareParts([i \in DOMAIN p1 |-> IntValue(p1[i])],
                     [i \in DOMAIN p2 |-> IntValue(p2[i])],
                     1, IF Len(p1) <= Len(p2) THEN Len(p1) ELSE Len(p2))

\* _version_compare, for two versions whose components parse: -1, 0 or 1
\* (it raises ValueError when a component does not parse)
version_compare(version1, version2) ==
    LET p1 == Split(version1, ".", <<>>)
        p2 == Split(version2, ".", <<>>)
    IN  CompareParts([i \in DOMAIN p1 |-> IntValue(p1[i])],
                     [i \in DOMAIN p2 |-> IntValue(p2[i])],
                     1, Max(Len(p1), Len(p2)))

----------------------------------------------------------------------------
(* The catalog of security fields.                                         *)

BASELINE == "Baseline"

RESTRICTED == "Restricted"

PRIVILEGED == "Privileged"

\* Optional[str] = None; the analyzer only tests its truthiness
NoVersion == <<>>

SecurityField(name, path, level, impact) ==
    [field_name |-> name, field_path |-> path, policy_level |-> level,
     deprecated_in |-> NoVersion, security_impact |-> impact]

get_security_fields ==
    << SecurityField("runAsNonRoot", "spec.securityContext.runAsNonRoot", BASELINE,
         "Running containers as non-root users significantly reduces the attack surface. If a container running as root is compromised, the attacker gains full access to the host system. Non-root containers limit the potential damage from container escapes."),
       SecurityField("allowPrivilegeEscalation", "spec.securityContext.allowPrivilegeEscalation", BASELINE,
         "When set to false, prevents privilege escalation attacks where a process can gain additional privileges through mechanisms like setuid binaries. This is essential for defense in depth."),
       SecurityField("privileged", "spec.containers[].securityContext.privileged", PRIVILEGED,
         "Privileged containers have access to all Linux capabilities and host devices. This essentially gives the container root access to the host system, making it a major security risk."),
       SecurityField("readOnlyRootFilesystem", "spec.containers[].securityContext.readOnlyRootFilesystem", RESTRICTED,
         "A read-only root filesystem prevents attackers from writing malicious files, installing backdoors, or modifying system files. This is a key defense against container escape and persistence attacks."),
       SecurityField("runAsUser", "spec.securityContext.runAsUser", BASELINE,
         "Running as a specific non-root user limits the potential damage from container compromise. It prevents the container from accessing sensitive host files and reduces privilege escalation opportunities."),
       SecurityField("capabilities", "spec.containers[].securityContext.capabilities", RESTRICTED,
         "Linux capabilities provide fine-grained control over what privileged operations a container can perform. Dropping unnecessary capabilities reduces the attack surface and follows the principle of least privilege."),
       SecurityField("hostPID", "spec.hostPID", PRIVILEGED,
         "When set to true, the container can see all processes on the host, including those from other containers and the host system. This can lead to information disclosure and potential privilege escalation attacks."),
       SecurityField("hostNetwork", "spec.hostNetwork", PRIVILEGED,
         "When set to true, the pod can access all network interfaces on the host, potentially including internal networks and services. This can lead to network-based attacks and information disclosure."),
       SecurityField("seccompProfile", "spec.securityContext.seccompProfile", RESTRICTED,
         "Seccomp profiles restrict which system calls a container can make, significantly reducing the attack surface. The RuntimeDefault profile blocks dangerous system calls that could be used for privilege escalation."),
       SecurityField("apparmorProfile", "spec.securityContext.apparmorProfile", RESTRICTED,
         "AppArmor profiles restrict file access, network access, and other system resources. This provides an additional layer of security beyond standard Linux permissions and capabilities.") >>

\* self.security_fields: field_name -> SecurityField
security_fields ==
    [n \in {get_security_fields[i].field_name : i \in DOMAIN get_security_fields} |->
        LET i == CHOOSE j \in DOMAIN get_security_fields :
                    /\ get_security_fields[j].field_name = n
                    /\ \A k \in DOMAIN get_security_fields :
                          get_security_fields[k].field_name = n => k <= j
        IN get_security_fields[i]]

----------------------------------------------------------------------------
(* The per-field rules.                                                    *)

Verdict(name, v, status, message, recommendation, field) ==
    [field_name |-> name, value |-> v, status |-> status, message |-> message,
     recommendation |-> recommendation, policy_level |-> field.policy_level,
     security_impact |-> field.security_impact]

analyze_run_as_non_root(v, field) ==
    IF IsTrue(v)
    THEN Verdict("runAsNonRoot", v, "secure",
                 "Container is configured to run as non-root",
                 "Good security practice", field)
    ELSE IF IsFalse(v)
    THEN Verdict("runAsNonRoot", v, "warning",
                 "Container can run as root user",
                 "Set to true for better security", field)
    ELSE Verdict("runAsNonRoot", v, "error",
                 "runAsNonRoot should be explicitly set to true or false",
                 "Set runAsNonRoot: true for security", field)

\* analyze_allow_privilege_escalation testing "not value" instead of
\* "value is False"
analyze_allow_privilege_escalation_falsy(v, field) ==
    IF ~Truthy(v)
    THEN Verdict("allowPrivilegeEscalation", v, "secure",
                 "Privilege escalation is disabled",
                 "Good security practice", field)
    ELSE IF IsTrue(v)
    THEN Verdict("allowPrivilegeEscalation", v, "warning",
                 "Privilege escalation is allowed",
                 "Set to false for better security", field)
    ELSE Verdict("allowPrivilegeEscalation", v, "error",
                 "allowPrivilegeEscalation should be explicitly set",
                 "Set allowPrivilegeEscalation: false", field)

analyze_allow_privilege_escalation(v, field) ==
    IF IsFalse(v)
    THEN Verdict("allowPrivilegeEscalation", v, "secure",
                 "Privilege escalation is disabled",
                 "Good security practice", field)
    ELSE IF IsTrue(v)
    THEN Verdict("allowPrivilegeEscalation", v, "warning",
                 "Privilege escalation is allowed",
                 "Set to false for better security", field)
    ELSE Verdict("allowPrivilegeEscalation", v, "error",
                 "allowPrivilegeEscalation should be explicitly set",
                 "Set allowPrivilegeEscalation: false", field)

analyze_privileged(v, field) ==
    IF IsTrue(v)
    THEN Verdict("privileged", v, "critical",
                 "Container runs in privileged mode - EXTREMELY DANGEROUS",
                 "Remove privileged: true immediately", field)
    ELSE IF IsFalse(v)
    THEN Verdict("privileged", v, "secure",
                 "Container is not privileged",
                 "Good security practice", field)
    ELSE Verdict("privileged", v, "warning",
                 "Privileged mode not explicitly disabled",
                 "Set privileged: false explicitly", field)

analyze_read_only_root_filesystem(v, field) ==
    IF IsTrue(v)
    THEN Verdict("readOnlyRootFilesystem", v, "secure",
                 "Root filesystem is read-only",
                 "Good security practice", field)
    ELSE IF IsFalse(v)
    THEN Verdict("readOnlyRootFilesystem", v, "warning",
                 "Root filesystem is writable",
                 "Set to true for better security", field)
    ELSE Verdict("readOnlyRootFilesystem", v, "error",
                 "readOnlyRootFilesystem should be explicitly set",
                 "Set readOnlyRootFilesystem: true", field)

\* "value == 0", then "value and value > 0": the comparison is only evaluated
\* for a truthy value, and raises TypeError for a str, list or dict
analyze_run_as_user(v, field) ==
    IF EqZero(v)
    THEN Verdict("runAsUser", v, "critical",
                 "Container runs as root user (UID 0)",
                 "Use a non-zero UID", field)
    ELSE IF Truthy(v) /\ ~Ordered(v)
    THEN Raise("TypeError")
    ELSE IF Truthy(v) /\ GtZero(v)
    THEN Verdict("runAsUser", v, "secure",
                 "Container runs as non-root user (UID " \o Format(v) \o ")",
                 "Good security practice", field)
    ELSE Verdict("runAsUser", v, "warning",
                 "runAsUser should be explicitly set to a non-zero value",
                 "Set runAsUser to a non-zero value (e.g., 1000)", field)

\* drop_all after 'if "drop" in value: if "ALL" in value["drop"]', for an
\* iterable value: a Python bool, or the exception raised on the way
capabilities_drop_all(v) ==
    IF ~In("drop", v) THEN PyFalse
    ELSE IF ~Subscriptable(v) THEN Raise("TypeError")
    ELSE IF ~Iterable(GetItem(v, "drop")) THEN Raise("TypeError")
    ELSE PyBool(In("ALL", GetItem(v, "drop")))

\* added_capabilities after 'if "add" in value: ... = value["add"]'
capabilities_added(v) ==
    IF ~In("add", v) THEN PyList(<<>>)
    ELSE IF ~Subscriptable(v) THEN Raise("TypeError")
    ELSE GetItem(v, "add")

analyze_capabilities(v, field) ==
    IF ~Truthy(v)
    THEN Verdict("capabilities", v, "warning",
                 "Capabilities not explicitly configured",
                 "Drop ALL capabilities and add only required ones", field)
    ELSE IF ~Iterable(v) THEN Raise("TypeError")
    ELSE LET drop_all == capabilities_drop_all(v)
             added_capabilities == capabilities_added(v)
         IN  IF IsRaise(drop_all) THEN drop_all
             ELSE IF IsRaise(added_capabilities) THEN added_capabilities
             ELSE IF drop_all.b /\ ~Truthy(added_capabilities)
             THEN Verdict("capabilities", v, "secure",
                          "All capabilities dropped, no additional capabilities added",
                          "Good security practice", field)
             ELSE IF drop_all.b /\ Truthy(added_capabilities)
             THEN Verdict("capabilities", v, "secure",
                          "All capabilities dropped, only specific capabilities added: "
                             \o Format(added_capabilities),
                          "Good security practice - review if all added capabilities are necessary",
                          field)
             ELSE Verdict("capabilities", v, "warning",
                          "Not all capabilities are dropped",
                          "Drop ALL capabilities and add only required ones", field)

analyze_host_fields(name, v, field) ==
    IF IsTrue(v)
    THEN Verdict(name, v, "critical",
                 name \o " is enabled - DANGEROUS",
                 "Remove " \o name \o ": true", field)
    ELSE IF IsFalse(v)
    THEN Verdict(name, v, "secure",
                 name \o " is enabled",
                 "Good security practice", field)
    ELSE Verdict(name, v, "warning",
                 name \o " should be explicitly set to false",
                 "Set " \o name \o ": false", field)

analyze_security_profiles(name, v, field) ==
    LET profile_type == IF v.t = "dict" /\ In("type", v) THEN GetItem(v, "type") ELSE v
    IN  IF profile_type = PyStr("RuntimeDefault")
        THEN Verdict(name, v, "secure",
                     name \o " is set to RuntimeDefault",
                     "Good security practice", field)
        ELSE IF profile_type = PyStr("Unconfined")
        THEN Verdict(name, v, "warning",
                     name \o " is set to Unconfined",
                     "Set " \o name \o " to RuntimeDefault", field)
        ELSE Verdict(name, v, "warning",
                     name \o " should be set to RuntimeDefault",
                     "Set " \o name \o " to RuntimeDefault", field)

analyze_generic_field(name, v, field) ==
    Verdict(name, v, "info",
            "Field " \o name \o " is set to " \o Format(v),
            "Review if this configuration is appropriate", field)

\* the dispatch of analyze_security_field, after the catalog lookup and the
\* deprecation test
Dispatch(name, v, field) ==
    CASE name = "runAsNonRoot" -> analyze_run_as_non_root(v, field)
      [] name = "allowPrivilegeEscalation" -> analyze_allow_privilege_escalation(v, field)
      [] name = "privileged" -> analyze_privileged(v, field)
      [] name = "readOnlyRootFilesystem" -> analyze_read_only_root_filesystem(v, field)
      [] name = "runAsUser" -> analyze_run_as_user(v, field)
      [] name = "capabilities" -> analyze_capabilities(v, field)
      [] name \in {"hostPID", "hostIPC", "hostNetwork"} -> analyze_host_fields(name, v, field)
      [] name \in {"seccompProfile", "apparmorProfile"} -> analyze_security_profiles(name, v, field)
      [] OTHER -> analyze_generic_field(name, v, field)

\* self._version_compare(kubernetes_version, field.deprecated_in) > 0
is_deprecated_after(version, deprecated_in) == version_compare(version, deprecated_in) > 0

\* self._version_compare(kubernetes_version, field.deprecated_in) >= 0
is_deprecated_in(version, deprecated_in) == version_compare(version, deprecated_in) >= 0

\* analyze_security_field of an analyzer whose self.security_fields is fields
analyze_security_field_of(fields, name, v, version) ==
    IF name \notin DOMAIN fields
    THEN [field_name |-> name, value |-> v, status |-> "unknown",
          message |-> "Unknown security field: " \o name,
          recommendation |-> "Review if this field is necessary for your use case"]
    ELSE LET field == fields[name]
         IN  IF field.deprecated_in = NoVersion
             THEN Dispatch(name, v, field)
             ELSE IF ~(version_parses(version) /\ version_parses(field.deprecated_in))
             THEN Raise("ValueError")
             ELSE IF is_deprecated_in(version, field.deprecated_in)
             THEN [field_name |-> name, value |-> v, status |-> "deprecated",
                   message |-> "Field is deprecated in Kubernetes "
                                  \o Join(field.deprecated_in, ""),
                   recommendation |-> "Consider using alternative approaches",
                   policy_level |-> field.policy_level,
                   security_impact |-> field.security_impact]
             ELSE Dispatch(name, v, field)

\* analyze_security_field of the analyzer the module constructs
analyze_security_field(name, v, version) ==
    analyze_security_field_of(security_fields, name, v, version)

\* the deprecated_in of the fields of get_security_fields(): none sets it
NoDeprecation == [field_name |-> "", deprecated_in |-> NoVersion]

\* self.security_fields when the catalog gives one field a deprecated_in
security_fields_with(d) ==
    [n \in DOMAIN security_fields |->
        IF n = d.field_name THEN [security_fields[n] EXCEPT !.deprecated_in = d.deprecated_in]
        ELSE security_fields[n]]

----------------------------------------------------------------------------
(* analyze_pod_yaml.                                                       *)

\* parse_yaml letting yaml.YAMLError escape instead of raising ValueError
parse_yaml_unwrapped(text) ==
    CASE text.load = "ok" -> text.data
      [] text.load = "YAMLError" -> [raise |-> "YAMLError", message |-> text.detail]
      [] text.load = "ValueError" -> [raise |-> "ValueError", message |-> text.detail]

\* yaml.safe_load is a library call: a text is identified by what the loader
\* does with it, which is to return the document [load |-> "ok", data |-> d],
\* to raise yaml.YAMLError (scanner, parser and constructor errors), or to let
\* a ValueError of a scalar constructor escape (e.g. the timestamp 2001-13-45)
parse_yaml(text) ==
    CASE text.load = "ok" -> text.data
      [] text.load = "YAMLError" ->
            [raise |-> "ValueError", message |-> "Invalid YAML format: " \o text.detail]
      [] text.load = "ValueError" ->
            [raise |-> "ValueError", message |-> text.detail]

ContainerKey(i) == "container_" \o ToString(i) \o "_security_context"

\* the elements a for loop draws from v: the items of a list, the keys of a
\* dict; the characters of a str never hold a securityContext and are left out
Elements(v) ==
    CASE v.t = "list" -> v.l
      [] v.t = "dict" -> [i \in DOMAIN v.d |-> PyStr(v.d[i][1])]
      [] v.t = "str" -> <<>>

\* a sequence of <<key, value>> entries, as a record, so that a result is
\* either such a record or an exception record
Entries(e) == [entries |-> e]

\* the entries the loop over the containers adds, or the first exception
RECURSIVE ContainerEntries(_, _)
ContainerEntries(containers, i) ==
    IF i > Len(containers) THEN Entries(<<>>)
    ELSE LET container == containers[i]
             rest == ContainerEntries(containers, i + 1)
         IN  IF ~Iterable(container) THEN Raise("TypeError")
             ELSE IF ~In("securityContext", container) THEN rest
             ELSE IF ~Subscriptable(container) THEN Raise("TypeError")
             ELSE IF IsRaise(rest) THEN rest
             ELSE Entries(<<<<ContainerKey(i - 1), GetItem(container, "securityContext")>>>>
                             \o rest.entries)

HostFields == <<"hostPID", "hostIPC", "hostNetwork">>

RECURSIVE HostEntries(_, _)
HostEntries(pod_spec, i) ==
    IF i > Len(HostFields) THEN Entries(<<>>)
    ELSE LET rest == HostEntries(pod_spec, i + 1)
         IN  IF ~In(HostFields[i], pod_spec) THEN rest
             ELSE IF ~Subscriptable(pod_spec) THEN Raise("TypeError")
             ELSE IF IsRaise(rest) THEN rest
             ELSE Entries(<<<<HostFields[i], GetItem(pod_spec, HostFields[i])>>>>
                             \o rest.entries)

\* extract_security_fields: the dict it returns, as the sequence of its
\* <<key, value>> pairs in insertion order, or the exception it raises
extract_security_fields(pod_spec) ==
    IF ~Iterable(pod_spec) THEN Raise("TypeError")
    ELSE IF In("securityContext", pod_spec) /\ ~Subscriptable(pod_spec)
    THEN Raise("TypeError")
    ELSE LET pod == IF In("securityContext", pod_spec)
                    THEN <<<<"pod_security_context", GetItem(pod_spec, "securityContext")>>>>
                    ELSE <<>>
         IN  IF In("containers", pod_spec) /\ ~Subscriptable(pod_spec)
             THEN Raise("TypeError")
             ELSE IF In("containers", pod_spec) /\ ~Iterable(GetItem(pod_spec, "containers"))
             THEN Raise("TypeError")
             ELSE LET containers ==
                        IF In("containers", pod_spec)
                        THEN ContainerEntries(Elements(GetItem(pod_spec, "containers")), 1)
                        ELSE Entries(<<>>)
                      hosts == HostEntries(pod_spec, 1)
                  IN  IF IsRaise(containers) THEN containers
                      ELSE IF IsRaise(hosts) THEN hosts
                      ELSE Entries(pod \o containers.entries \o hosts.entries)

\* field_name.startswith("container_") and field_name.endswith("_security_context"):
\* of the keys extract_security_fields produces, exactly the container keys,
\* i.e. every key but "pod_security_context" and the host fields
IsContainerKey(key) == key \notin ({"pod_security_context"} \cup Range(HostFields))

\* the calls of analyze_security_field the loop of analyze_pod_yaml makes, in
\* order, each [label, name, value] (label is the name used in the issue
\* lists); value.items() on a container security context that is no dict is
\* the item [raise |-> "AttributeError"]
RECURSIVE FieldCalls(_)
FieldCalls(entries) ==
    IF entries = <<>> THEN <<>>
    ELSE LET key == Head(entries)[1]
             v == Head(entries)[2]
             calls == IF ~IsContainerKey(key)
                      THEN <<[name |-> key, value |-> v]>>
                      ELSE IF v.t # "dict" THEN <<Raise("AttributeError")>>
                      ELSE [i \in DOMAIN v.d |-> [name |-> v.d[i][1], value |-> v.d[i][2]]]
         IN  calls \o FieldCalls(Tail(entries))

BASELINE_RESTRICTED == {BASELINE, RESTRICTED}

GCD(a, b) == CHOOSE d \in 1..Max(a, b) : /\ a % d = 0 /\ b % d = 0
                                         /\ \A e \in (d + 1)..Max(a, b) : ~(a % e = 0 /\ b % e = 0)

\* a float score is kept as the exact fraction num/den in lowest terms
Fraction(n, d) == [num |-> n \div GCD(n, d), den |-> d \div GCD(n, d)]

PodSecurityAnalysis(text, version, results, score, compliance, recs, critical, warns) ==
    [pod_yaml |-> text, kubernetes_version |-> version, analysis_results |-> results,
     overall_score |-> score, policy_compliance |-> compliance,
     recommendations |-> recs, critical_issues |-> critical, warnings |-> warns,
     fixed_yaml |-> PyNone]

\* the issue lines the loop collects for one status
RECURSIVE Issues(_, _, _)
Issues(calls, results, status) ==
    IF calls = <<>> THEN <<>>
    ELSE (IF Head(results).status = status
          THEN <<Head(calls).name \o ": " \o Head(results).message>>
          ELSE <<>>) \o Issues(Tail(calls), Tail(results), status)

Count(results, status) == Cardinality({i \in DOMAIN results : results[i].status = status})

\* list(set(recommendations)): the distinct strings, in the iteration order of
\* a set of str, which the code does not determine
Orderings(S) ==
    {o \in [1..Cardinality(S) -> S] : \A i, j \in DOMAIN o : i # j => o[i] # o[j]}

\* overall_score with the integer division secure_fields // total_fields
overall_score_floordiv(analysis_results) ==
    LET total_fields == Len(analysis_results)
        secure_fields == Count(analysis_results, "secure")
    IN  IF total_fields > 0 THEN Fraction((secure_fields \div total_fields) * 100, 1)
        ELSE Fraction(0, 1)

\* overall_score = (secure_fields / total_fields * 100) if total_fields > 0 else 0.0
overall_score(analysis_results) ==
    LET total_fields == Len(analysis_results)
        secure_fields == Count(analysis_results, "secure")
    IN  IF total_fields > 0 THEN Fraction(secure_fields * 100, total_fields)
        ELSE Fraction(0, 1)

\* policy_compliance with Restricted computed like Baseline
policy_compliance_critical_only(analysis_results) ==
    [l \in BASELINE_RESTRICTED |->
        ~\E i \in DOMAIN analysis_results : analysis_results[i].status = "critical"]

policy_compliance(analysis_results) ==
    [l \in BASELINE_RESTRICTED |->
        IF l = BASELINE
        THEN ~\E i \in DOMAIN analysis_results : analysis_results[i].status = "critical"
        ELSE ~\E i \in DOMAIN analysis_results :
                 analysis_results[i].status \in {"critical", "warning"}]

\* the early returns of analyze_pod_yaml with critical_issues=[]
TerminalAnalysis_no_issue(text, version, error, recommendation, issue) ==
    PodSecurityAnalysis(text, version, <<[error |-> error]>>, Fraction(0, 1),
                        [l \in BASELINE_RESTRICTED |-> FALSE],
                        <<recommendation>>, <<>>, <<>>)

\* the result both early returns of analyze_pod_yaml build
TerminalAnalysis(text, version, error, recommendation, issue) ==
    PodSecurityAnalysis(text, version, <<[error |-> error]>>, Fraction(0, 1),
                        [l \in BASELINE_RESTRICTED |-> FALSE],
                        <<recommendation>>, <<issue>>, <<>>)

\* the analyses analyze_pod_yaml can return for the text (they differ in the
\* order of the recommendations only), or the exception that escapes it
analyze_pod_yaml(text, version) ==
    LET pod_data == parse_yaml(text)
    IN  IF IsRaise(pod_data)
        THEN IF pod_data.raise = "ValueError"
             THEN {TerminalAnalysis(text, version, pod_data.message,
                                    "Fix YAML syntax errors", "Invalid YAML format")}
             ELSE {pod_data}
        ELSE IF ~Iterable(pod_data) THEN {Raise("TypeError")}
        ELSE IF ~In("spec", pod_data)
        THEN {TerminalAnalysis(text, version, "No spec found in Pod",
                               "Add spec section to Pod", "Missing spec section")}
        ELSE IF ~Subscriptable(pod_data) THEN {Raise("TypeError")}
        ELSE LET extracted == extract_security_fields(GetItem(pod_data, "spec"))
             IN  IF IsRaise(extracted) THEN {extracted}
                 ELSE
    LET calls == FieldCalls(extracted.entries)
        analysis_results ==
            [i \in DOMAIN calls |->
                IF IsRaise(calls[i]) THEN calls[i]
                ELSE analyze_security_field(calls[i].name, calls[i].value, version)]
    IN  IF \E i \in DOMAIN analysis_results : IsRaise(analysis_results[i])
        THEN {analysis_results[CHOOSE i \in DOMAIN analysis_results :
                  /\ IsRaise(analysis_results[i])
                  /\ \A j \in 1..(i - 1) : ~IsRaise(analysis_results[j])]}
        ELSE
    LET recommendations == {analysis_results[i].recommendation : i \in DOMAIN analysis_results}
    IN  {PodSecurityAnalysis(text, version, analysis_results,
                             overall_score(analysis_results),
                             policy_compliance(analysis_results), recs,
                             Issues(calls, analysis_results, "critical"),
                             Issues(calls, analysis_results, "warning"))
           : recs \in Orderings(recommendations)}

----------------------------------------------------------------------------
(* The inputs.                                                             *)

Pair(k, v) == <<k, v>>

DropALL == PyDict(<<Pair("drop", PyList(<<PyStr("ALL")>>))>>)

\* the values a capabilities field is given
CapabilityValues ==
    LET drops == {PyNone, PyList(<<>>), PyList(<<PyStr("ALL")>>), PyList(<<PyStr("NET_RAW")>>),
                  PyList(<<PyStr("NET_RAW"), PyStr("ALL")>>), PyStr("ALL")}
        adds == {PyNone, PyList(<<>>), PyList(<<PyStr("NET_ADMIN")>>)}
    IN  {PyDict(<<>>)}
          \cup {PyDict(<<Pair("drop", d)>>) : d \in drops}
          \cup {PyDict(<<Pair("add", a)>>) : a \in adds}
          \cup {PyDict(<<Pair("drop", d), Pair("add", a)>>) : d \in drops, a \in adds}

ScalarValues ==
    {PyNone, PyTrue, PyFalse, PyInt(0), PyInt(1), PyInt(1000), PyInt(-1),
     PyStr(""), PyStr("abc"), PyStr("true"), PyStr("RuntimeDefault"), PyStr("Unconfined"),
     PyStr("drop ALL")}

\* the observed values analyze_security_field is called with
FieldValues ==
    ScalarValues \cup CapabilityValues
      \cup {PyList(<<>>), PyList(<<PyInt(1000)>>), PyList(<<PyStr("drop")>>),
            PyDict(<<Pair("type", PyStr("RuntimeDefault"))>>),
            PyDict(<<Pair("type", PyStr("Unconfined"))>>),
            PyDict(<<Pair("type", PyStr("Localhost"))>>)}

FieldNames ==
    DOMAIN security_fields \cup {"hostIPC", "fsGroup", "pod_security_context"}

\* version strings, as sequences of characters
Versions ==
    { <<"1", ".", "2", "0">>, <<"1", ".", "2", "4">>, <<"1", ".", "9">>,
      <<"l", "a", "t", "e", "s", "t">> }

\* settings of a securityContext, as <<key, value>>
ContextSettings ==
    { Pair("runAsNonRoot", PyTrue), Pair("runAsNonRoot", PyFalse), Pair("runAsNonRoot", PyNone),
      Pair("runAsUser", PyInt(0)), Pair("runAsUser", PyInt(1000)), Pair("runAsUser", PyStr("abc")),
      Pair("privileged", PyTrue), Pair("privileged", PyFalse),
      Pair("capabilities", DropALL), Pair("capabilities", PyDict(<<>>)),
      Pair("capabilities", PyDict(<<Pair("drop", PyNone)>>)),
      Pair("allowPrivilegeEscalation", PyFalse),
      Pair("fsGroup", PyInt(2000)) }

\* settings of the pod spec itself
HostSettings ==
    { Pair("hostPID", PyTrue), Pair("hostPID", PyFalse),
      Pair("hostIPC", PyTrue), Pair("hostIPC", PyFalse),
      Pair("hostNetwork", PyFalse), Pair("hostNetwork", PyStr("yes")) }

\* where a setting is written: the pod's securityContext, the securityContext
\* of container i (0-based), or the pod spec
Placements ==
    {[at |-> "pod", c |-> 0, key |-> kv[1], value |-> kv[2]] : kv \in ContextSettings}
      \cup {[at |-> "container", c |-> i, key |-> kv[1], value |-> kv[2]] :
               i \in 0..(MaxContainers - 1), kv \in ContextSettings}
      \cup {[at |-> "spec", c |-> 0, key |-> kv[1], value |-> kv[2]] : kv \in HostSettings}

\* no key is written twice in the same mapping
PlacementSeqs ==
    UNION {{p \in [1..n -> Placements] :
              \A i, j \in 1..n :
                 i # j => <<p[i].at, p[i].c, p[i].key>> # <<p[j].at, p[j].c, p[j].key>>}
           : n \in 0..MaxFields}

SettingsAt(p, at, c) ==
    LET sel == SelectSeq(p, LAMBDA x : x.at = at /\ x.c = c)
    IN  [i \in DOMAIN sel |-> Pair(sel[i].key, sel[i].value)]

Container(ctx) ==
    PyDict(<<Pair("name", PyStr("app")), Pair("image", PyStr("nginx"))>>
             \o (IF ctx = <<>> THEN <<>> ELSE <<Pair("securityContext", PyDict(ctx))>>))

Pod(spec) ==
    PyDict(<<Pair("apiVersion", PyStr("v1")), Pair("kind", PyStr("Pod")), Pair("spec", spec)>>)

\* the manifest in which the settings p are written
Manifest(p) ==
    LET used == {p[i].c + 1 : i \in {j \in DOMAIN p : p[j].at = "container"}}
        n == IF used = {} THEN 0 ELSE CHOOSE m \in used : \A k \in used : k <= m
        podctx == SettingsAt(p, "pod", 0)
    IN  Pod(PyDict(
           (IF podctx = <<>> THEN <<>> ELSE <<Pair("securityContext", PyDict(podctx))>>)
             \o (IF n = 0 THEN <<>>
                 ELSE <<Pair("containers",
                             PyList([i \in 1..n |-> Container(SettingsAt(p, "container", i - 1))]))>>)
             \o SettingsAt(p, "spec", 0)))

\* the manifest of the end-to-end scenario of a fully restricted pod, with the
\* securityContext on the container or on the pod
RestrictedContext ==
    << Pair("runAsNonRoot", PyTrue), Pair("runAsUser", PyInt(1000)),
       Pair("allowPrivilegeEscalation", PyFalse), Pair("readOnlyRootFilesystem", PyTrue),
       Pair("capabilities", DropALL), Pair("privileged", PyFalse) >>

RestrictedHostFlags ==
    << Pair("hostPID", PyFalse), Pair("hostIPC", PyFalse), Pair("hostNetwork", PyFalse) >>

RestrictedManifests ==
    { Pod(PyDict(<<Pair("containers",
                        PyList(<<PyDict(<<Pair("name", PyStr("app")),
                                          Pair("securityContext", PyDict(RestrictedContext))>>)>>))>>
                   \o RestrictedHostFlags)),
      Pod(PyDict(<<Pair("securityContext", PyDict(RestrictedContext))>> \o RestrictedHostFlags)) }

\* documents that are no pod manifest, or whose parts have unexpected types
OddDocuments ==
    { PyNone, PyInt(42), PyTrue, PyStr("hello"), PyStr("spec"), PyStr("no spec here"),
      PyList(<<>>), PyList(<<PyStr("a"), PyStr("b")>>), PyList(<<PyStr("spec")>>),
      PyDict(<<>>), PyDict(<<Pair("apiVersion", PyStr("v1")), Pair("kind", PyStr("Pod"))>>),
      Pod(PyNone), Pod(PyInt(1)), Pod(PyStr("securityContext")), Pod(PyList(<<>>)),
      Pod(PyList(<<PyStr("containers")>>)), Pod(PyDict(<<>>)),
      Pod(PyDict(<<Pair("securityContext", PyNone)>>)),
      Pod(PyDict(<<Pair("securityContext", PyDict(<<>>))>>)),
      Pod(PyDict(<<Pair("containers", PyNone)>>)),
      Pod(PyDict(<<Pair("containers", PyList(<<>>))>>)),
      Pod(PyDict(<<Pair("containers", PyList(<<PyNone>>))>>)),
      Pod(PyDict(<<Pair("containers",
                        PyList(<<PyDict(<<Pair("securityContext", PyNone)>>)>>))>>)),
      Pod(PyDict(<<Pair("containers",
                        PyList(<<PyDict(<<Pair("securityContext", PyDict(<<>>))>>)>>))>>)),
      Pod(PyDict(<<Pair("containers",
                        PyDict(<<Pair("securityContext", PyDict(<<>>))>>))>>)),
      Pod(PyDict(<<Pair("hostPID", PyNone)>>)) }

\* texts the loader rejects
MalformedTexts ==
    { [load |-> "YAMLError", detail |-> "mapping values are not allowed here"],
      [load |-> "YAMLError", detail |-> "found unhashable key"],
      [load |-> "ValueError", detail |-> "month must be in 1..12"] }

Text(d) == [load |-> "ok", data |-> d]

YamlTexts ==
    MalformedTexts
      \cup {Text(d) : d \in OddDocuments \cup RestrictedManifests}
      \cup {Text(Manifest(p)) : p \in PlacementSeqs}

----------------------------------------------------------------------------
(* The version registry (crawler/version_manager.py).                      *)

POD_SECURITY_POLICY == "PodSecurityPolicy"

POD_SECURITY_STANDARDS_ALPHA == "PodSecurityStandardsAlpha"

POD_SECURITY_STANDARDS_STABLE == "PodSecurityStandardsStable"

VersionConfig(version, is_lts, policy_type) ==
    [version |-> version, is_lts |-> is_lts, policy_type |-> policy_type]

version_configs ==
    << VersionConfig(<<"1", ".", "2", "0">>, FALSE, "PodSecurityPolicy"),
       VersionConfig(<<"1", ".", "2", "1">>, TRUE, "PodSecurityPolicy"),
       VersionConfig(<<"1", ".", "2", "2">>, FALSE, "PodSecurityStandardsAlpha"),
       VersionConfig(<<"1", ".", "2", "3">>, FALSE, "PodSecurityStandardsAlpha"),
       VersionConfig(<<"1", ".", "2", "4">>, TRUE, "PodSecurityStandardsStable"),
       VersionConfig(<<"1", ".", "2", "5">>, FALSE, "PodSecurityStandardsStable"),
       VersionConfig(<<"1", ".", "2", "6">>, FALSE, "PodSecurityStandardsStable"),
       VersionConfig(<<"1", ".", "2", "7">>, TRUE, "PodSecurityStandardsStable"),
       VersionConfig(<<"1", ".", "2", "8">>, FALSE, "PodSecurityStandardsStable"),
       VersionConfig(<<"1", ".", "2", "9">>, FALSE, "PodSecurityStandardsStable") >>

\* self.versions: version string -> KubernetesVersion; major and minor are
\* parsed from the string
initialize_versions ==
    [v \in {version_configs[i].version : i \in DOMAIN version_configs} |->
        LET i == CHOOSE j \in DOMAIN version_configs :
                    /\ version_configs[j].version = v
                    /\ \A k \in DOMAIN version_configs :
                          version_configs[k].version = v => k <= j
            config == version_configs[i]
            parts == Split(v, ".", <<>>)
        IN  [version |-> v, major |-> IntValue(parts[1]), minor |-> IntValue(parts[2]),
             patch |-> 0, is_lts |-> config.is_lts, policy_type |-> config.policy_type]]

NoVersionInfo == [missing |-> TRUE]

\* self.versions.get(version)
get_version_info(version) ==
    IF version \in DOMAIN initialize_versions THEN initialize_versions[version]
    ELSE NoVersionInfo

\* VersionManager.get_policy_type_for_version with PodSecurityPolicy as the
\* fallback of an unregistered version
get_policy_type_for_version_psp_default(version) ==
    LET version_info == get_version_info(version)
    IN  IF version_info # NoVersionInfo THEN version_info.policy_type
        ELSE "PodSecurityPolicy"

\* VersionManager.get_policy_type_for_version
get_policy_type_for_version(version) ==
    LET version_info == get_version_info(version)
    IN  IF version_info # NoVersionInfo THEN version_info.policy_type
        ELSE "PodSecurityStandardsStable"

\* VersionedKubernetesVectorStore.get_policy_type_for_version: the PolicyType
\* of the registry's string
store_get_policy_type_for_version(version) ==
    LET policy_type_str == get_policy_type_for_version(version)
    IN  IF policy_type_str = "PodSecurityPolicy" THEN POD_SECURITY_POLICY
        ELSE IF policy_type_str = "PodSecurityStandardsAlpha" THEN POD_SECURITY_STANDARDS_ALPHA
        ELSE POD_SECURITY_STANDARDS_STABLE

\* the version strings the registry is asked about: the registered ones, later
\* and older ones, patch-qualified and malformed ones
RegistryVersions ==
    {version_configs[i].version : i \in DOMAIN version_configs}
      \cup { <<"1", ".", "3", "0">>, <<"1", ".", "1", "9">>, <<"1", ".", "9">>, <<"2", ".", "2", "4">>, <<"1", ".", "2", "4", ".", "0">>, <<"1", ".", "2", "0", ".", "3">>, <<"v", "1", ".", "2", "4">>, <<"l", "a", "t", "e", "s", "t">>,
             <<"1", "_", "2", "4">>, <<"1", ".">>, <<"1", ".", "2", "0", " ">>, <<>> }

----------------------------------------------------------------------------
(* The calls.  A call is drawn in the initial state and then made; result  *)
(* is what it returned or the exception that escaped it.                   *)

Pending == [pending |-> TRUE]

NoText == Text(PyNone)

HashSeeds == 0..(NumHashSeeds - 1)

\* the variables of a repeated analysis, when no analysis is repeated
NoRepeat == hash_seed = 0 /\ result2 = Pending

Idle == [idle |-> TRUE]

\* the store, when no store call is made
StoreIdle == collections = <<>> /\ version_collections = <<>> /\ store_result = Idle

\* no thread is inside get_version_collection
CallersIdle == callers = <<>> /\ requests = <<>>

\* the endpoint, when no request is made
RagIdle == rag_request = Idle /\ llm_backend = "available" /\ rag_response = Pending

\* the crawler, when no crawl is made
CrawlerIdle == crawler = Idle

\* the checklist, when no call is made on a tree
ChecklistIdle == checklist = Idle

Init ==
    /\ result = Pending
    /\ NoRepeat
    /\ deprecation = NoDeprecation
    /\ StoreIdle
    /\ CallersIdle
    /\ RagIdle
    /\ CrawlerIdle
    /\ ChecklistIdle
    /\ \/ /\ op = "analyze_pod_yaml"
          /\ kubernetes_version \in Versions
          /\ yaml_content \in YamlTexts
          /\ field_name = ""
          /\ value = PyNone
       \/ /\ op = "analyze_security_field"
          /\ kubernetes_version \in Versions
          /\ yaml_content = NoText
          /\ field_name \in FieldNames
          /\ value \in FieldValues
       \/ /\ op = "get_policy_type_for_version"
          /\ kubernetes_version \in RegistryVersions
          /\ yaml_content = NoText
          /\ field_name = ""
          /\ value = PyNone

AnalyzePodYaml ==
    /\ op = "analyze_pod_yaml"
    /\ result = Pending
    /\ result' \in analyze_pod_yaml(yaml_content, kubernetes_version)
    /\ UNCHANGED <<deprecation, op, yaml_content, kubernetes_version, field_name, value>>
    /\ UNCHANGED <<hash_seed, result2>>
    /\ UNCHANGED nonAnalyzerVars

AnalyzeSecurityField ==
    /\ op = "analyze_security_field"
    /\ result = Pending
    /\ result' = analyze_security_field_of(security_fields_with(deprecation), field_name,
                                            value, kubernetes_version)
    /\ UNCHANGED <<deprecation, op, yaml_content, kubernetes_version, field_name, value>>
    /\ UNCHANGED <<hash_seed, result2>>
    /\ UNCHANGED nonAnalyzerVars

GetPolicyTypeForVersion ==
    /\ op = "get_policy_type_for_version"
    /\ result = Pending
    /\ result' = [policy_type_str |-> get_policy_type_for_version(kubernetes_version),
                  policy_type |-> store_get_policy_type_for_version(kubernetes_version)]
    /\ UNCHANGED <<deprecation, op, yaml_content, kubernetes_version, field_name, value>>
    /\ UNCHANGED <<hash_seed, result2>>
    /\ UNCHANGED nonAnalyzerVars

Next == AnalyzePodYaml \/ AnalyzeSecurityField \/ GetPolicyTypeForVersion

Spec == Init /\ [][Next]_vars

\* the deprecations a catalog could give: get_security_fields() gives none,
\* and SecurityField.deprecated_in is an Optional[str] of the schema
Deprecations ==
    {[field_name |-> n, deprecated_in |-> v] :
        n \in {"runAsUser", "hostPID"},
        v \in {<<"1", ".", "2", "1">>, <<"1", ".", "2", "5">>, <<"1", ".", "1", "0">>}}

\* the target versions a field of such a catalog is analyzed against
TargetVersions ==
    Versions \cup {<<"1", ".", "2", "1">>, <<"1", ".", "2", "5", ".", "1">>,
                   <<"1", ".", "1", "0">>}

\* the components of the compared versions
VersionComponents == {<<"0">>, <<"9">>, <<"1", "0">>, <<"2", "4">>}

\* major.minor and major.minor.patch
WellFormedVersions ==
    {a \o <<".">> \o b : a, b \in VersionComponents}
      \cup {a \o <<".">> \o b \o <<".">> \o c : a, b, c \in VersionComponents}

\* the versions _version_compare is called with
ComparedVersions == WellFormedVersions \cup {<<"l", "a", "t", "e", "s", "t">>, <<"1", ".">>}

InitCatalog ==
    /\ result = Pending
    /\ NoRepeat
    /\ StoreIdle
    /\ CallersIdle
    /\ RagIdle
    /\ CrawlerIdle
    /\ ChecklistIdle
    /\ yaml_content = NoText
    /\ \/ /\ op = "analyze_security_field"
          /\ deprecation \in Deprecations
          /\ kubernetes_version \in TargetVersions
          /\ field_name \in FieldNames
          /\ value \in FieldValues
       \/ /\ op = "version_compare"
          /\ deprecation \in {[field_name |-> "hostPID", deprecated_in |-> v] :
                                 v \in ComparedVersions}
          /\ kubernetes_version \in ComparedVersions
          /\ field_name = ""
          /\ value = PyNone

\* self._version_compare(kubernetes_version, field.deprecated_in): the int it
\* returns, or the ValueError of int()
VersionCompare ==
    /\ op = "version_compare"
    /\ result = Pending
    /\ result' =
          IF version_parses(kubernetes_version) /\ version_parses(deprecation.deprecated_in)
              THEN PyInt(version_compare(kubernetes_version, deprecation.deprecated_in))
          ELSE Raise("ValueError")
    /\ UNCHANGED <<deprecation, op, yaml_content, kubernetes_version, field_name, value>>
    /\ UNCHANGED <<hash_seed, result2>>
    /\ UNCHANGED nonAnalyzerVars

NextCatalog == AnalyzeSecurityField \/ VersionCompare

SpecCatalog == InitCatalog /\ [][NextCatalog]_vars

----------------------------------------------------------------------------
(* A repeated analysis.  list(set(recommendations)) iterates a set of str, *)
(* whose order follows the hashes of the strings: it is a function of the  *)
(* set and of the hash seed the interpreter process drew when it started   *)
(* (str hashes are randomized per process unless PYTHONHASHSEED is set).   *)

RECURSIVE Rotate(_, _)
Rotate(s, k) == IF k = 0 \/ s = <<>> THEN s ELSE Rotate(Tail(s) \o <<Head(s)>>, k - 1)

\* the order in which a process with the given hash seed iterates the set
SetOrder(S, seed) ==
    Rotate(CHOOSE o \in Orderings(S) : TRUE, IF S = {} THEN 0 ELSE seed % Cardinality(S))

\* analyze_pod_yaml in a process with the given hash seed
analyze_pod_yaml_in_process(text, version, seed) ==
    CHOOSE r \in analyze_pod_yaml(text, version) :
        "recommendations" \in DOMAIN r =>
            r.recommendations = SetOrder(Range(r.recommendations), seed)

InitRepeat ==
    /\ op = "analyze_pod_yaml"
    /\ kubernetes_version \in Versions
    /\ yaml_content \in YamlTexts
    /\ field_name = ""
    /\ value = PyNone
    /\ result = Pending
    /\ result2 = Pending
    /\ hash_seed \in HashSeeds
    /\ deprecation = NoDeprecation
    /\ StoreIdle
    /\ CallersIdle
    /\ RagIdle
    /\ CrawlerIdle
    /\ ChecklistIdle

AnalyzeFirst ==
    /\ result = Pending
    /\ result' = analyze_pod_yaml_in_process(yaml_content, kubernetes_version, hash_seed)
    /\ UNCHANGED deprecation
    /\ UNCHANGED <<op, yaml_content, kubernetes_version, field_name, value, hash_seed, result2>>
    /\ UNCHANGED nonAnalyzerVars

\* the process ends and a new one starts, with a hash seed of its own
RestartProcess ==
    /\ result # Pending
    /\ result2 = Pending
    /\ \E seed \in HashSeeds \ {hash_seed} : hash_seed' = seed
    /\ UNCHANGED deprecation
    /\ UNCHANGED <<op, yaml_content, kubernetes_version, field_name, value, result, result2>>
    /\ UNCHANGED nonAnalyzerVars

AnalyzeAgain ==
    /\ result # Pending
    /\ result2 = Pending
    /\ result2' = analyze_pod_yaml_in_process(yaml_content, kubernetes_version, hash_seed)
    /\ UNCHANGED deprecation
    /\ UNCHANGED <<op, yaml_content, kubernetes_version, field_name, value, hash_seed, result>>
    /\ UNCHANGED nonAnalyzerVars

NextRepeat == AnalyzeFirst \/ RestartProcess \/ AnalyzeAgain

SpecRepeat == InitRepeat /\ [][NextRepeat]_vars

----------------------------------------------------------------------------
(* The versioned vector store (versioned_vector_store.py).  A chunk is     *)
(* kept with its distance to the one query the searches ask; a collection  *)
(* is named by the characters of its name.                                 *)

\* the analyzer, when no analyzer call is made
AnalyzerIdle ==
    /\ op = "idle"
    /\ yaml_content = NoText
    /\ kubernetes_version = <<>>
    /\ field_name = ""
    /\ value = PyNone
    /\ result = Pending
    /\ NoRepeat
    /\ deprecation = NoDeprecation

COMMON_COLLECTION ==
    << "k", "u", "b", "e", "r", "n", "e", "t", "e", "s", "_", "s", "e", "c",
    "u", "r", "i", "t", "y", "_", "c", "o", "m", "m", "o", "n" >>

DOCS_COLLECTION ==
    << "k", "u", "b", "e", "r", "n", "e", "t", "e", "s", "_", "d", "o", "c",
    "s" >>

VERSION_COLLECTION_PREFIX ==
    << "k", "u", "b", "e", "r", "n", "e", "t", "e", "s", "_", "s", "e", "c",
    "u", "r", "i", "t", "y", "_", "v" >>

\* str.replace(old, new) for one-character old and new
Replace(s, old, new) == [i \in DOMAIN s |-> IF s[i] = old THEN new ELSE s[i]]

\* f"kubernetes_security_v{version.replace('.', '_')}"
collection_name(version) == VERSION_COLLECTION_PREFIX \o Replace(version, ".", "_")

\* client.get_or_create_collection(name): the backend afterwards
get_or_create_collection(colls, name) ==
    IF name \in DOMAIN colls THEN colls ELSE (name :> {}) @@ colls

\* get_version_collection: the cache and the backend afterwards, and the
\* handle returned; the backend is asked only for a version not cached
get_version_collection(cache, colls, version) ==
    IF version \notin DOMAIN cache
        THEN [cache |-> (version :> collection_name(version)) @@ cache,
              colls |-> get_or_create_collection(colls, collection_name(version)),
              collection |-> collection_name(version)]
    ELSE [cache |-> cache, colls |-> colls, collection |-> cache[version]]

Chunk(id, collection_type, version, distance) ==
    [id |-> id, collection_type |-> collection_type, version |-> version,
     distance |-> distance]

\* the id of a new chunk: chunk ids are unique
NewId(chunks, collection_type, version, distance) ==
    1 + Cardinality({c \in chunks : /\ c.collection_type = collection_type
                                     /\ c.version = version
                                     /\ c.distance = distance})

\* collection.add of one chunk
collection_add(colls, name, collection_type, version, distance) ==
    [colls EXCEPT ![name] =
        @ \cup {Chunk(NewId(@, collection_type, version, distance),
                      collection_type, version, distance)}]

IsSortedByDistance(s) ==
    \A i, j \in DOMAIN s : i < j => s[i].distance <= s[j].distance

\* collection.query(n_results): the nearest chunks, nearest first; which of
\* several chunks at one distance comes first, or is cut, is the backend's
\* choice.  A handle whose collection is gone makes the query raise.
collection_query(colls, name, n_results) ==
    LET chunks == colls[name]
        k == IF Cardinality(chunks) < n_results THEN Cardinality(chunks) ELSE n_results
    IN  UNION { {o \in Orderings(T) : IsSortedByDistance(o)} :
                  T \in {U \in SUBSET chunks :
                            /\ Cardinality(U) = k
                            /\ \A c \in chunks \ U : \A u \in U : u.distance <= c.distance} }

Hit(chunk, name) ==
    [id |-> chunk.id,
     metadata |-> [collection_type |-> chunk.collection_type, version |-> chunk.version],
     distance |-> chunk.distance,
     collection |-> name]

\* _search_collection: the formatted hits of one query, none when the
\* query raised
search_collection(name, queried, raised) ==
    IF raised THEN <<>> ELSE [i \in DOMAIN queried |-> Hit(queried[i], name)]

\* list.sort(key=distance) is stable: a hit goes behind the hits that are
\* at most as far
RECURSIVE InsertByDistance(_, _)
InsertByDistance(s, x) ==
    IF s = <<>> THEN <<x>>
    ELSE IF Head(s).distance <= x.distance THEN <<Head(s)>> \o InsertByDistance(Tail(s), x)
    ELSE <<x>> \o s

RECURSIVE SortByDistance(_)
SortByDistance(s) ==
    IF s = <<>> THEN <<>>
    ELSE InsertByDistance(SortByDistance(SubSeq(s, 1, Len(s) - 1)), s[Len(s)])

Min(a, b) == IF a <= b THEN a ELSE b

\* the end of search without the sort
search_rank_unsorted(all_results, n_results) ==
    SubSeq(all_results, 1, Min(n_results * 2, Len(all_results)))

\* the end of search: sort by distance, keep the first n_results * 2
search_rank(all_results, n_results) ==
    SubSeq(SortByDistance(all_results), 1, Min(n_results * 2, Len(all_results)))

\* the version strings the store is asked about; two of them differ in a
\* dot and an underscore only
StoreVersions ==
    { <<"1", ".", "2", "4">>, <<"1", "_", "2", "4">>, <<"1", ".", "2", "5">> }

\* the versions chunks are ingested for
IngestedVersions == { <<"1", ".", "2", "4">>, <<"1", ".", "2", "5">> }

\* a version that is None or the empty string
NoStoreVersion == <<>>

Distances == 1..MaxDistance

ChunkCount == Cardinality(UNION {collections[name] : name \in DOMAIN collections})

\* VersionedKubernetesVectorStore() on a new persist directory
InitStore ==
    /\ AnalyzerIdle
    /\ CallersIdle
    /\ RagIdle
    /\ CrawlerIdle
    /\ ChecklistIdle
    /\ collections = (COMMON_COLLECTION :> {}) @@ (DOCS_COLLECTION :> {})
    /\ version_collections = <<>>
    /\ store_result = Idle

\* the caller takes the outcome of the call
Continue ==
    /\ store_result # Idle
    /\ store_result' = Idle
    /\ UNCHANGED <<collections, version_collections>>
    /\ UNCHANGED nonStoreVars

\* the process ends; a new one constructs the store on the same directory
RestartStore ==
    /\ store_result = Idle
    /\ version_collections # <<>>
    /\ version_collections' = <<>>
    /\ collections' = get_or_create_collection(
                          get_or_create_collection(collections, COMMON_COLLECTION),
                          DOCS_COLLECTION)
    /\ UNCHANGED store_result
    /\ UNCHANGED nonStoreVars

\* add_version_specific_chunks of one chunk; the backend may raise when
\* the collection is opened or when the chunk is added
AddVersionSpecificChunks ==
    /\ store_result = Idle
    /\ ChunkCount < MaxChunks
    /\ \E version \in IngestedVersions, distance \in Distances,
          open_raises \in BOOLEAN, add_raises \in BOOLEAN :
          LET opened == get_version_collection(version_collections, collections, version)
          IN  IF open_raises /\ version \notin DOMAIN version_collections
                  THEN /\ store_result' = [op |-> "add_version_specific_chunks",
                                           raise |-> "Exception"]
                       /\ UNCHANGED <<collections, version_collections>>
              ELSE IF add_raises \/ opened.collection \notin DOMAIN opened.colls
                  THEN /\ store_result' = [op |-> "add_version_specific_chunks",
                                           raise |-> "Exception"]
                       /\ collections' = opened.colls
                       /\ version_collections' = opened.cache
              ELSE /\ collections' = collection_add(opened.colls, opened.collection,
                                                    "version_specific", version, distance)
                   /\ version_collections' = opened.cache
                   /\ UNCHANGED store_result
    /\ UNCHANGED nonStoreVars

\* add_common_chunks of one chunk
AddCommonChunks ==
    /\ store_result = Idle
    /\ ChunkCount < MaxChunks
    /\ \E distance \in Distances :
          collections' = collection_add(collections, COMMON_COLLECTION,
                                        "common", NoStoreVersion, distance)
    /\ UNCHANGED <<version_collections, store_result>>
    /\ UNCHANGED nonStoreVars

\* add_crawled_content of one chunk of one page
AddCrawledContent ==
    /\ store_result = Idle
    /\ ChunkCount < MaxChunks
    /\ \E distance \in Distances :
          collections' = collection_add(collections, DOCS_COLLECTION,
                                        "crawled_docs", NoStoreVersion, distance)
    /\ UNCHANGED <<version_collections, store_result>>
    /\ UNCHANGED nonStoreVars

\* search with the default include_common and include_docs and no filter.
\* raising is the backend call that raises, if one does: "open" the opening
\* of the version collection, or the query of one of the three partitions.
Search ==
    /\ store_result = Idle
    /\ \E version \in StoreVersions \cup {NoStoreVersion}, n_results \in 1..MaxResults,
          raising \in SUBSET {"open", "common", "version", "docs"} :
          LET opened == get_version_collection(version_collections, collections, version)
              asked == version # NoStoreVersion
              open_raises == /\ asked
                             /\ "open" \in raising
                             /\ version \notin DOMAIN version_collections
              colls == IF asked /\ ~open_raises THEN opened.colls ELSE collections
              dead == asked /\ opened.collection \notin DOMAIN colls
          IN  /\ Cardinality(raising) <= 1
              /\ "open" \in raising => open_raises
              /\ "version" \in raising => asked /\ ~open_raises
              /\ IF open_raises
                    THEN /\ store_result' = [op |-> "search", version |-> version,
                                             n_results |-> n_results, raising |-> raising,
                                             raise |-> "Exception"]
                         /\ UNCHANGED <<collections, version_collections>>
                 ELSE /\ \E qc \in collection_query(colls, COMMON_COLLECTION, n_results),
                            qd \in collection_query(colls, DOCS_COLLECTION, n_results),
                            qv \in IF asked /\ ~dead
                                      THEN collection_query(colls, opened.collection, n_results)
                                   ELSE {<<>>} :
                            LET common_results ==
                                    search_collection(COMMON_COLLECTION, qc,
                                                      "common" \in raising)
                                version_results ==
                                    IF asked
                                        THEN search_collection(opened.collection, qv,
                                                               "version" \in raising \/ dead)
                                    ELSE <<>>
                                docs_results ==
                                    search_collection(DOCS_COLLECTION, qd, "docs" \in raising)
                                all_results ==
                                    common_results \o version_results \o docs_results
                            IN  store_result' =
                                    [op |-> "search", version |-> version,
                                     n_results |-> n_results, raising |-> raising,
                                     common_results |-> common_results,
                                     version_results |-> version_results,
                                     docs_results |-> docs_results,
                                     hits |-> search_rank(all_results, n_results)]
                      /\ collections' = colls
                      /\ version_collections' =
                            IF asked THEN opened.cache ELSE version_collections
    /\ UNCHANGED nonStoreVars

\* get_collection_statistics: the count of the common and of the docs
\* collection and, for every cached version, the name and the count of its
\* collection
get_collection_statistics(cache, colls) ==
    [common_collection |-> [name |-> COMMON_COLLECTION,
                            count |-> Cardinality(colls[COMMON_COLLECTION])],
     docs_collection |-> [name |-> DOCS_COLLECTION,
                          count |-> Cardinality(colls[DOCS_COLLECTION])],
     version_collections |->
         [version \in DOMAIN cache |->
             [name |-> cache[version], count |-> Cardinality(colls[cache[version]])]]]

\* the deletion loop of reset_all_collections with the try around the loop:
\* the first deletion that raises ends it
RECURSIVE delete_collections_aborting(_, _, _)
delete_collections_aborting(colls, names, raising) ==
    IF names = <<>> THEN [colls |-> colls, errors |-> {}]
    ELSE LET name == Head(names)
             fails == name \in raising \/ name \notin DOMAIN colls
             rest == delete_collections_aborting([n \in DOMAIN colls \ {name} |-> colls[n]],
                                                 Tail(names), raising)
         IN  IF fails THEN [colls |-> colls, errors |-> {name}] ELSE rest

RECURSIVE delete_collections(_, _, _)
\* the deletion loop of reset_all_collections: a deletion that raises, as
\* the deletion of a collection that is gone does, is reported and skipped
delete_collections(colls, names, raising) ==
    IF names = <<>> THEN [colls |-> colls, errors |-> {}]
    ELSE LET name == Head(names)
             fails == name \in raising \/ name \notin DOMAIN colls
             after == IF fails THEN colls
                      ELSE [n \in DOMAIN colls \ {name} |-> colls[n]]
             rest == delete_collections(after, Tail(names), raising)
         IN  [colls |-> rest.colls,
              errors |-> rest.errors \cup (IF fails THEN {name} ELSE {})]

\* the names of the cached version collections, in the order of the cache
CachedNames(cache) ==
    LET order == CHOOSE o \in Orderings(DOMAIN cache) : TRUE
    IN  [i \in DOMAIN order |-> cache[order[i]]]

\* reset_all_collections; raising is the set of collections whose deletion
\* the backend refuses
ResetAllCollections ==
    /\ store_result = Idle
    /\ \E raising \in SUBSET {COMMON_COLLECTION, collection_name(<<"1", ".", "2", "5">>)} :
          LET collections_to_delete ==
                  <<COMMON_COLLECTION, DOCS_COLLECTION>> \o CachedNames(version_collections)
              deleted == delete_collections(collections, collections_to_delete, raising)
          IN  /\ raising \subseteq Range(collections_to_delete)
              /\ collections' = get_or_create_collection(
                                    get_or_create_collection(deleted.colls, COMMON_COLLECTION),
                                    DOCS_COLLECTION)
              /\ store_result' = [op |-> "reset_all_collections", raising |-> raising,
                                  deletion_errors |-> deleted.errors]
    /\ version_collections' = <<>>
    /\ UNCHANGED nonStoreVars

NextStore ==
    \/ Continue
    \/ RestartStore
    \/ AddVersionSpecificChunks
    \/ AddCommonChunks
    \/ AddCrawledContent
    \/ Search
    \/ ResetAllCollections

SpecStore == InitStore /\ [][NextStore]_vars

----------------------------------------------------------------------------
(* Threads in get_version_collection.  The method takes no lock: the test  *)
(* of the cache, the request to the backend and the assignment to the      *)
(* cache are steps that the steps of other threads can come between.  A    *)
(* handle is told apart by the request that returned it.                   *)

Callers == 1..NumCallers

Handle(name, request) == [name |-> name, request |-> request]

NoHandle == [none |-> TRUE]

InitCallers ==
    /\ AnalyzerIdle
    /\ RagIdle
    /\ CrawlerIdle
    /\ ChecklistIdle
    /\ collections = (COMMON_COLLECTION :> {}) @@ (DOCS_COLLECTION :> {})
    /\ version_collections = <<>>
    /\ store_result = Idle
    /\ callers \in [Callers -> {[pc |-> "check", version |-> v, collection |-> NoHandle] :
                                   v \in StoreVersions}]
    /\ requests = <<>>

\* if version not in self.version_collections
CheckCached(t) ==
    /\ callers[t].pc = "check"
    /\ callers' = [callers EXCEPT ![t].pc =
                      IF callers[t].version \notin DOMAIN version_collections
                          THEN "get_or_create" ELSE "return"]
    /\ UNCHANGED <<requests, storeVars>>
    /\ UNCHANGED <<analyzerVars, ragVars, crawler, checklist>>

\* self.client.get_or_create_collection(name=collection_name, ...)
GetOrCreate(t) ==
    /\ callers[t].pc = "get_or_create"
    /\ LET name == collection_name(callers[t].version)
       IN  /\ collections' = get_or_create_collection(collections, name)
           /\ requests' = Append(requests, [caller |-> t, version |-> callers[t].version,
                                              name |-> name])
           /\ callers' = [callers EXCEPT ![t].pc = "assign",
                                         ![t].collection = Handle(name, Len(requests) + 1)]
    /\ UNCHANGED <<version_collections, store_result>>
    /\ UNCHANGED <<analyzerVars, ragVars, crawler, checklist>>

\* self.version_collections[version] = <the handle returned>
AssignCached(t) ==
    /\ callers[t].pc = "assign"
    /\ version_collections' =
          (callers[t].version :> callers[t].collection) @@ version_collections
    /\ callers' = [callers EXCEPT ![t].pc = "return"]
    /\ UNCHANGED <<requests, collections, store_result>>
    /\ UNCHANGED <<analyzerVars, ragVars, crawler, checklist>>

\* return self.version_collections[version]
ReturnCached(t) ==
    /\ callers[t].pc = "return"
    /\ callers' = [callers EXCEPT ![t].pc = "done",
                                  ![t].collection = version_collections[callers[t].version]]
    /\ UNCHANGED <<requests, storeVars>>
    /\ UNCHANGED <<analyzerVars, ragVars, crawler, checklist>>

NextCallers ==
    \E t \in Callers :
        \/ CheckCached(t)
        \/ GetOrCreate(t)
        \/ AssignCached(t)
        \/ ReturnCached(t)

SpecCallers == InitCallers /\ [][NextCallers]_vars

----------------------------------------------------------------------------
(* The analyze-pod endpoint (api_server.py), the RAG system behind it      *)
(* (rag_system.py) and the narrative backend (llm_integration.py).         *)

\* the states of the narrative backend: OPENAI_API_KEY is not set; the client
\* could not be constructed; the completion call raises; the call answers
LlmBackends == {"no_credentials", "client_unavailable", "generation_fails", "available"}

\* what the searches of one analysis give: hits, or the exception of a
\* search that fails
RetrievalOutcomes ==
    { [hits |-> <<>>],
      [hits |-> <<[id |-> "chunk-1", content |-> "guidance", distance |-> 1]>>],
      [raise |-> "Exception"] }

\* OpenAILLM.generate_security_advice: every failure is answered with a text
generate_security_advice(backend) ==
    CASE backend = "client_unavailable" ->
             PyStr("[Error] OpenAI client is not available. Please check your API key and network connection.")
      [] backend = "generation_fails" ->
             PyStr("[Error] LLM security advice generation failed: Connection error.")
      [] backend = "available" -> PyStr("advice")

\* OpenAILLM.generate_fixed_yaml
generate_fixed_yaml(backend) ==
    CASE backend = "client_unavailable" ->
             PyStr("[Error] OpenAI client is not available. Please check your API key and network connection.")
      [] backend = "generation_fails" ->
             PyStr("[Error] LLM YAML fix generation failed: Connection error.")
      [] backend = "available" -> PyStr("fixed yaml")

RECURSIVE Repeat(_, _)
Repeat(s, n) == IF n = 0 THEN <<>> ELSE s \o Repeat(s, n - 1)

\* _get_security_context: one search for every result that names a field,
\* and one for the policy level
get_security_context(analysis, retrieved) ==
    IF IsRaise(retrieved) THEN retrieved
    ELSE [context |->
            Repeat(retrieved.hits,
                   1 + Len(SelectSeq(analysis.analysis_results,
                                     LAMBDA r : "field_name" \in DOMAIN r)))]

\* score >= bound, for the score kept as a fraction
ScoreAtLeast(score, bound) == score.num >= bound * score.den

\* _generate_summary: the figures the summary text is written from
generate_summary(analysis, target_policy_level) ==
    IF target_policy_level \notin DOMAIN analysis.policy_compliance THEN Raise("KeyError")
    ELSE [score |-> analysis.overall_score,
          status |-> IF ScoreAtLeast(analysis.overall_score, 90) THEN "Excellent"
                     ELSE IF ScoreAtLeast(analysis.overall_score, 70) THEN "Good"
                     ELSE IF ScoreAtLeast(analysis.overall_score, 50) THEN "Fair"
                     ELSE "Poor",
          critical_count |-> Len(analysis.critical_issues),
          warning_count |-> Len(analysis.warnings),
          target_policy_level |-> target_policy_level,
          compliant |-> analysis.policy_compliance[target_policy_level]]

\* _generate_compliance_status
generate_compliance_status(analysis, target_policy_level) ==
    IF target_policy_level \notin DOMAIN analysis.policy_compliance THEN Raise("KeyError")
    ELSE [status |-> IF analysis.policy_compliance[target_policy_level]
                         THEN "Compliant" ELSE "Non-compliant",
          target_level |-> target_policy_level,
          baseline_compliant |-> analysis.policy_compliance[BASELINE],
          restricted_compliant |-> analysis.policy_compliance[RESTRICTED]]

\* _generate_security_advice: the summary is built first
rag_generate_security_advice(analysis, target_policy_level) ==
    LET summary == generate_summary(analysis, target_policy_level)
        compliance_status == generate_compliance_status(analysis, target_policy_level)
    IN  IF IsRaise(summary) THEN summary
        ELSE IF IsRaise(compliance_status) THEN compliance_status
        ELSE [summary |-> summary,
              critical_issues |-> analysis.critical_issues,
              warnings |-> analysis.warnings,
              recommendations |-> analysis.recommendations,
              compliance_status |-> compliance_status]

\* the version note is chosen by the policy type
version_note(policy_type) ==
    CASE policy_type = POD_SECURITY_POLICY -> "PSP (1.20~1.21)"
      [] policy_type = POD_SECURITY_STANDARDS_ALPHA -> "PSS Alpha (1.22~1.23)"
      [] policy_type = POD_SECURITY_STANDARDS_STABLE -> "PSS Stable (1.24+)"

\* KubernetesSecurityRAG.analyze_pod_configuration, for the result of the
\* analyzer and the outcome of the searches: what it returns, or the
\* exception that escapes it and the step it comes from
analyze_pod_configuration(request, target_policy_level, backend, analysis, retrieved) ==
    LET policy_type == get_policy_type_for_version(request.kubernetes_version)
        security_context == get_security_context(analysis, retrieved)
        security_advice == rag_generate_security_advice(analysis, target_policy_level)
    IN  IF IsRaise(analysis) THEN [raise |-> analysis.raise, step |-> "analysis"]
        ELSE IF IsRaise(security_context)
            THEN [raise |-> security_context.raise, step |-> "security_context"]
        ELSE IF IsRaise(security_advice)
            THEN [raise |-> security_advice.raise, step |-> "security_advice"]
        ELSE [analysis |-> analysis,
              security_context |-> security_context.context,
              security_advice |-> security_advice,
              llm_korean_advice |-> IF request.use_llm THEN generate_security_advice(backend)
                                    ELSE PyNone,
              fixed_yaml |-> IF request.use_llm THEN generate_fixed_yaml(backend) ELSE PyNone,
              target_policy_level |-> target_policy_level,
              kubernetes_version |-> request.kubernetes_version,
              policy_type |-> policy_type,
              version_note |-> version_note(policy_type)]

\* str.lower() of the level names a request is made with
Lower(level) ==
    CASE level = "Restricted" -> "restricted"
      [] level = "BASELINE" -> "baseline"
      [] level = "Privileged" -> "privileged"
      [] OTHER -> level

\* the policy levels the endpoint accepts
AcceptedLevels == {"restricted", "baseline", "privileged"}

\* the endpoint: 500 when the RAG system could not be constructed (its
\* constructor builds OpenAILLM(), which raises without credentials), 400 for
\* every exception of the handler
api_analyze_pod_configuration(request, backend, analysis, retrieved) ==
    LET policy_level_str == Lower(request.target_policy_level)
        policy_level == CASE policy_level_str = "restricted" -> RESTRICTED
                          [] policy_level_str = "baseline" -> BASELINE
                          [] policy_level_str = "privileged" -> PRIVILEGED
                          [] OTHER -> "none"
        returned == analyze_pod_configuration(request, policy_level, backend,
                                              analysis, retrieved)
    IN  IF backend = "no_credentials"
            THEN [status_code |-> 500, raise |-> "ValueError", step |-> "get_rag_system"]
        ELSE IF policy_level_str \notin AcceptedLevels
            THEN [status_code |-> 400, raise |-> "ValueError", step |-> "policy_level"]
        ELSE IF IsRaise(returned)
            THEN [status_code |-> 400, raise |-> returned.raise, step |-> returned.step]
        ELSE [status_code |-> 200, body |-> returned]

\* the manifests of the requests: the malformed and odd documents, the
\* restricted scenario, and the manifests of one setting
RagTexts ==
    MalformedTexts
      \cup {Text(d) : d \in OddDocuments \cup RestrictedManifests}
      \cup {Text(Manifest(<<p>>)) : p \in Placements}

PodAnalysisRequest(text, version, level, use_llm) ==
    [yaml_content |-> text, kubernetes_version |-> version,
     target_policy_level |-> level, use_llm |-> use_llm]

RagRequests ==
    { PodAnalysisRequest(text, version, level, use_llm) :
        text \in RagTexts, version \in {<<"1", ".", "2", "0">>, <<"1", ".", "2", "4">>},
        level \in {"restricted", "baseline", "privileged", "Restricted", "strict"},
        use_llm \in BOOLEAN }

InitRag ==
    /\ AnalyzerIdle
    /\ StoreIdle
    /\ CallersIdle
    /\ CrawlerIdle
    /\ ChecklistIdle
    /\ rag_request \in RagRequests
    /\ llm_backend \in LlmBackends
    /\ rag_response = Pending

ApiAnalyzePod ==
    /\ rag_request # Idle
    /\ rag_response = Pending
    /\ \E retrieved \in RetrievalOutcomes,
          analysis \in analyze_pod_yaml(rag_request.yaml_content,
                                        rag_request.kubernetes_version) :
          rag_response' = api_analyze_pod_configuration(rag_request, llm_backend,
                                                        analysis, retrieved)
    /\ UNCHANGED <<rag_request, llm_backend>>
    /\ UNCHANGED nonRagVars

NextRag == ApiAnalyzePod

SpecRag == InitRag /\ [][NextRag]_vars

----------------------------------------------------------------------------
(* The documentation crawler (crawler/kubernetes_docs_crawler.py).  One    *)
(* step is one HTTP attempt, with the parsing or the wait that follows it. *)

\* the default of the constructor
max_retries == 3

\* the default of crawl_version
DEFAULT_MAX_PAGES == 50

\* the pages crawl_version starts with, named by their keys in
\* get_version_urls
security_urls ==
    << "pod_security_standards", "security_context", "rbac", "network_policies",
       "secrets", "service_accounts" >>

\* what an HTTP attempt can raise: the requests exceptions of the transport
\* (ConnectionError), of the timeout (Timeout) and of raise_for_status
\* (HTTPError)
RequestExceptions == {"ConnectionError", "Timeout", "HTTPError"}

\* what the parsing of a fetched page can raise
ParseExceptions == {"AttributeError"}

\* except Exception, narrowed to the exceptions of requests
is_exception_of_requests(e) == e \in RequestExceptions

\* except Exception: the handler around a page in crawl_version and in
\* _crawl_additional_pages
is_exception(e) == e \in RequestExceptions \cup ParseExceptions

\* except requests.RequestException: the handler around an attempt
is_request_exception(e) == e \in RequestExceptions

\* time.sleep(self.delay * (attempt + 1)), attempt counted from 0
retry_wait(delay, attempt) == delay * (attempt + 1)

\* what an attempt meets: an exception of the request, a page of a content
\* type, or a page whose parsing raises
AttemptOutcomes ==
    {[raise |-> e] : e \in {"ConnectionError", "HTTPError"}}
      \cup {[content_type |-> c, parse |-> "ok"] :
               c \in {"text/html", "text/markdown", "application/pdf"}}
      \cup {[content_type |-> "text/html", parse |-> "AttributeError"]}

\* the links _crawl_additional_pages finds on the index of the documentation
LinkLists == { <<>>, <<"admission">>, <<"rbac", "admission">> }

ParsedContent(url, version, parser) == [url |-> url, version |-> version, parser |-> parser]

\* static_content_generator.generate_content_for_version
static_content(version) == <<ParsedContent("static", version, "static")>>

\* the instance and the locals of a crawl_version call.  since is the time
\* slept since the latest HTTP request, counted up to delay (-1: no request
\* yet), gap the value of since when the latest request was issued; fetched
\* lists the urls this call has requested as pages, earlier those of the
\* calls before it since visited_urls was last cleared; driver is the loop
\* the call is made from and versions are the versions it has still to crawl
CrawlerState(pc, version, max_pages, delay) ==
    [pc |-> pc, version |-> version, max_pages |-> max_pages, delay |-> delay,
     phase |-> "security", queue |-> <<>>, url |-> "", attempt |-> 0,
     attempts |-> 0, sleeps |-> <<>>, visited_urls |-> {}, crawled_content |-> <<>>,
     visited_count |-> 0, skipped |-> {}, logged |-> "", result |-> Pending,
     since |-> -1, gap |-> -1, fetched |-> <<>>, earlier |-> <<>>,
     driver |-> "crawl_version", versions |-> <<>>]

\* time.sleep(t)
Slept(c, t) == IF c.since < 0 THEN c ELSE [c EXCEPT !.since = Min(@ + t, c.delay)]

\* self.session.get(...)
Requested(c) == [c EXCEPT !.gap = c.since, !.since = 0]

\* url in self.visited_urls, always answered with no
is_visited_never(url, visited_urls) == FALSE

\* url in self.visited_urls
is_visited(url, visited_urls) == url \in visited_urls

InitCrawl ==
    /\ AnalyzerIdle
    /\ StoreIdle
    /\ CallersIdle
    /\ RagIdle
    /\ ChecklistIdle
    /\ \E version \in {<<"1", ".", "2", "4">>, <<"1", ".", "2", "1">>, <<"1", ".", "9">>},
          max_pages \in {1, DEFAULT_MAX_PAGES}, delay \in 1..MaxDelay :
          crawler = CrawlerState("start", version, max_pages, delay)

\* crawl_version up to its loop
StartCrawl ==
    /\ crawler # Idle
    /\ crawler.pc = "start"
    /\ crawler' =
          IF crawler.version \notin DOMAIN initialize_versions
              THEN [crawler EXCEPT !.pc = "done", !.result = [pages |-> <<>>]]
          ELSE IF crawler.version \in {<<"1", ".", "2", "0">>, <<"1", ".", "2", "1">>}
              THEN [crawler EXCEPT !.pc = "done",
                                   !.result = [pages |-> static_content(crawler.version)]]
          ELSE [crawler EXCEPT !.pc = "page", !.queue = security_urls]
    /\ UNCHANGED nonCrawlerVars

\* the loop is left: the additional pages follow if max_pages allows
AfterSecurityPages(c) ==
    IF c.visited_count < c.max_pages
        THEN [c EXCEPT !.pc = "additional", !.phase = "additional", !.queue = <<>>]
    ELSE [c EXCEPT !.pc = "done", !.result = [pages |-> c.crawled_content]]

\* the head of a loop: the next page is taken, or the loop is left; a page
\* already visited gives no content
NextPage ==
    /\ crawler # Idle
    /\ crawler.pc = "page"
    /\ crawler' =
          IF crawler.queue = <<>>
              THEN IF crawler.phase = "security" THEN AfterSecurityPages(crawler)
                   ELSE [crawler EXCEPT !.pc = "done",
                                        !.result = [pages |-> crawler.crawled_content]]
          ELSE IF crawler.phase = "security" /\ crawler.visited_count >= crawler.max_pages
              THEN AfterSecurityPages(crawler)
          ELSE IF is_visited(Head(crawler.queue), crawler.visited_urls)
              THEN Slept([crawler EXCEPT !.queue = Tail(crawler.queue)], crawler.delay)
          ELSE [crawler EXCEPT !.pc = "attempt", !.url = Head(crawler.queue),
                               !.queue = Tail(crawler.queue),
                               !.visited_urls = @ \cup {Head(crawler.queue)},
                               !.fetched = Append(@, Head(crawler.queue)),
                               !.attempt = 0, !.attempts = 0, !.sleeps = <<>>,
                               !.logged = ""]
    /\ UNCHANGED nonCrawlerVars

\* the page is left without content, and the reason is logged
SkipPage(c, why) == [c EXCEPT !.pc = "page", !.skipped = @ \cup {c.url}, !.logged = why]

\* one pass of the loop of _crawl_single_page, and what its caller does
\* with a result or an exception
Attempt ==
    /\ crawler # Idle
    /\ crawler.pc = "attempt"
    /\ \E outcome \in AttemptOutcomes :
          LET c == Requested([crawler EXCEPT !.attempts = @ + 1])
          IN  crawler' =
                IF crawler.attempt >= max_retries
                    THEN Slept(SkipPage(crawler, "attempts"), crawler.delay)
                ELSE IF "raise" \in DOMAIN outcome
                    THEN IF is_request_exception(outcome.raise)
                             THEN IF crawler.attempt < max_retries - 1
                                      THEN Slept([c EXCEPT !.attempt = @ + 1,
                                                           !.sleeps =
                                                               Append(@, retry_wait(c.delay,
                                                                                    c.attempt))],
                                                 retry_wait(c.delay, c.attempt))
                                  ELSE Slept(SkipPage(c, "attempts"), c.delay)
                         ELSE IF is_exception(outcome.raise) THEN SkipPage(c, "exception")
                         ELSE [c EXCEPT !.pc = "aborted", !.result = Raise(outcome.raise)]
                ELSE IF outcome.parse # "ok"
                    THEN IF is_exception(outcome.parse) THEN SkipPage(c, "exception")
                         ELSE [c EXCEPT !.pc = "aborted", !.result = Raise(outcome.parse)]
                ELSE IF outcome.content_type \in {"text/html", "text/markdown"}
                    THEN Slept([c EXCEPT !.pc = "page",
                                         !.crawled_content =
                                             Append(@, ParsedContent(c.url, c.version,
                                                                     outcome.content_type)),
                                         !.visited_count =
                                             IF c.phase = "security" THEN @ + 1 ELSE @],
                               c.delay)
                ELSE Slept(SkipPage(c, "content_type"), c.delay)
    /\ UNCHANGED nonCrawlerVars

\* _crawl_additional_pages up to its loop: the index is fetched once, and
\* any exception ends the additional pages
FetchIndex ==
    /\ crawler # Idle
    /\ crawler.pc = "additional"
    /\ \/ \E links \in LinkLists :
             crawler' =
                 [Requested(crawler) EXCEPT
                     !.pc = "page",
                     !.queue = SubSeq(links, 1,
                                      Min(crawler.max_pages - crawler.visited_count,
                                          Len(links)))]
       \/ \E e \in RequestExceptions \cup ParseExceptions :
             crawler' =
                 IF is_exception(e)
                     THEN [Requested(crawler) EXCEPT
                              !.pc = "done",
                              !.result = [pages |-> crawler.crawled_content]]
                 ELSE [Requested(crawler) EXCEPT !.pc = "aborted", !.result = Raise(e)]
    /\ UNCHANGED nonCrawlerVars

NextCrawl == StartCrawl \/ NextPage \/ Attempt \/ FetchIndex

SpecCrawl == InitCrawl /\ [][NextCrawl]_vars

\* a crawl that has begun goes on: no step of it waits for another thread
SpecCrawlFair == SpecCrawl /\ WF_vars(NextCrawl)

\* the versions one instance crawls one after another: the same version twice
\* (as the build script does, whose two loops run over the same list), two
\* versions, and a version of static content first
VersionLists ==
    { << <<"1", ".", "2", "4">>, <<"1", ".", "2", "4">> >>,
      << <<"1", ".", "2", "5">>, <<"1", ".", "2", "8">> >>,
      << <<"1", ".", "2", "1">>, <<"1", ".", "2", "4">> >> }

\* the loops that call crawl_version on one instance: crawl_multiple_versions,
\* and the loop of the build script (build_documentation_collection) on the
\* module's kubernetes_crawler
Drivers == {"crawl_multiple_versions", "build_documentation_collection"}

\* time.sleep(1) of build_documentation_collection
BUILD_SLEEP == 1

InitCrawls ==
    /\ AnalyzerIdle
    /\ StoreIdle
    /\ CallersIdle
    /\ RagIdle
    /\ ChecklistIdle
    /\ \E versions \in VersionLists, driver \in Drivers, max_pages \in {1, DEFAULT_MAX_PAGES} :
          crawler = [CrawlerState("start", Head(versions), max_pages, 1) EXCEPT
                        !.driver = driver, !.versions = Tail(versions)]

\* the body of the driver's loop after crawl_version has returned, and the
\* next call: crawl_multiple_versions clears visited_urls, the build script
\* sleeps and leaves the instance as it is
NextCall ==
    /\ crawler # Idle
    /\ crawler.pc = "done"
    /\ crawler.driver \in Drivers
    /\ LET clears == crawler.driver = "crawl_multiple_versions"
           after == IF clears THEN crawler ELSE Slept(crawler, BUILD_SLEEP)
           next_version == IF crawler.versions = <<>> THEN crawler.version
                           ELSE Head(crawler.versions)
           kept == [CrawlerState("start", next_version, crawler.max_pages, crawler.delay)
                       EXCEPT !.driver = crawler.driver,
                              !.visited_urls = IF clears THEN {} ELSE crawler.visited_urls,
                              !.earlier = IF clears THEN <<>>
                                          ELSE crawler.earlier \o crawler.fetched,
                              !.since = after.since,
                              !.gap = crawler.gap]
       IN  crawler' =
              IF crawler.versions = <<>> THEN [kept EXCEPT !.pc = "finished"]
              ELSE [kept EXCEPT !.versions = Tail(crawler.versions)]
    /\ UNCHANGED nonCrawlerVars

NextCrawls == NextCrawl \/ NextCall

SpecCrawls == InitCrawls /\ [][NextCrawls]_vars

----------------------------------------------------------------------------
(* Problem trees (tree_structure.py) and the checklist that is kept on     *)
(* them (checklist_generator.py).  An item is a record whose children are  *)
(* a sequence of items; a member of an Enum is told from its value.        *)

\* class ProblemSeverity(Enum): name -> value
ProblemSeverity ==
    [CRITICAL |-> "critical", HIGH |-> "high", MEDIUM |-> "medium", LOW |-> "low"]

\* class ProblemCategory(Enum): name -> value
ProblemCategory ==
    [NETWORK |-> "network", SECURITY |-> "security", RESOURCE |-> "resource",
     DEPLOYMENT |-> "deployment", MONITORING |-> "monitoring",
     INTEGRATION |-> "integration"]

\* the member of an Enum class
Member(enum, name) == [enum |-> enum, name |-> name]

\* the classes by their names
EnumClass(enum) == IF enum = "ProblemSeverity" THEN ProblemSeverity ELSE ProblemCategory

\* member.name in the place of member.value
enum_name(member) == member.name

\* member.value
enum_value(member) == EnumClass(member.enum)[member.name]

\* EnumClass(value): the member that has the value; ValueError when none has
enum_member(enum, v) ==
    IF \E name \in DOMAIN EnumClass(enum) : EnumClass(enum)[name] = v
        THEN Member(enum, CHOOSE name \in DOMAIN EnumClass(enum) : EnumClass(enum)[name] = v)
    ELSE Raise("ValueError")

CRITICAL == Member("ProblemSeverity", "CRITICAL")

HIGH == Member("ProblemSeverity", "HIGH")

MEDIUM == Member("ProblemSeverity", "MEDIUM")

LOW == Member("ProblemSeverity", "LOW")

\* @dataclass class CheckItem
CheckItem(id, title, description, category, severity, children, solution_guide, related_docs, metadata, is_checked, user_notes) ==
    [id |-> id, title |-> title, description |-> description, category |-> category,
     severity |-> severity, children |-> children, solution_guide |-> solution_guide,
     related_docs |-> related_docs, metadata |-> metadata, is_checked |-> is_checked,
     user_notes |-> user_notes]

\* @dataclass class ProblemTree
ProblemTree(root, created_at, user_context, metadata) ==
    [root |-> root, created_at |-> created_at, user_context |-> user_context,
     metadata |-> metadata]

\* the concatenation of a sequence of sequences
RECURSIVE Concat(_)
Concat(seqs) == IF seqs = <<>> THEN <<>> ELSE Head(seqs) \o Concat(Tail(seqs))

\* CheckItem.get_all_children: every child followed by its own descendants
RECURSIVE get_all_children(_)
get_all_children(item) ==
    Concat([i \in DOMAIN item.children |->
               <<item.children[i]>> \o get_all_children(item.children[i])])

\* ProblemTree.get_all_items
get_all_items(tree) == <<tree.root>> \o get_all_children(tree.root)

\* ProblemTree.get_items_by_severity
get_items_by_severity(tree, severity) ==
    SelectSeq(get_all_items(tree), LAMBDA item : item.severity = severity)

\* ProblemTree.get_critical_items
get_critical_items(tree) == get_items_by_severity(tree, CRITICAL)

\* the sum of a sequence of numbers
RECURSIVE Sum(_)
Sum(numbers) == IF numbers = <<>> THEN 0 ELSE Head(numbers) + Sum(Tail(numbers))

\* CheckItem.get_checked_count
RECURSIVE get_checked_count(_)
get_checked_count(item) ==
    (IF item.is_checked THEN 1 ELSE 0)
      + Sum([i \in DOMAIN item.children |-> get_checked_count(item.children[i])])

\* CheckItem.get_total_count
RECURSIVE get_total_count(_)
get_total_count(item) ==
    1 + Sum([i \in DOMAIN item.children |-> get_total_count(item.children[i])])

\* item_to_dict of ProblemTree.to_dict: the enums are written as their values
RECURSIVE item_to_dict(_)
item_to_dict(item) ==
    [id |-> item.id, title |-> item.title, description |-> item.description,
     category |-> enum_value(item.category), severity |-> enum_value(item.severity),
     children |-> [i \in DOMAIN item.children |-> item_to_dict(item.children[i])],
     solution_guide |-> item.solution_guide, related_docs |-> item.related_docs,
     metadata |-> item.metadata, is_checked |-> item.is_checked,
     user_notes |-> item.user_notes]

\* ProblemTree.to_dict
to_dict(tree) ==
    [root |-> item_to_dict(tree.root), created_at |-> tree.created_at,
     user_context |-> tree.user_context, metadata |-> tree.metadata]

\* dict.get(key, default)
DictGet(d, key, default) == IF key \in DOMAIN d THEN d[key] ELSE default

\* dict_to_item of ProblemTree.from_dict: the children first, then the item;
\* a KeyError or a ValueError of the enums escapes
RECURSIVE dict_to_item(_)
dict_to_item(item_data) ==
    LET child_data == DictGet(item_data, "children", <<>>)
        children == [i \in DOMAIN child_data |-> dict_to_item(child_data[i])]
    IN  IF \E i \in DOMAIN children : IsRaise(children[i])
            THEN children[CHOOSE i \in DOMAIN children :
                             /\ IsRaise(children[i])
                             /\ \A j \in 1..(i - 1) : ~IsRaise(children[j])]
        ELSE IF {"id", "title", "description", "category", "severity"}
                   \ DOMAIN item_data # {}
            THEN Raise("KeyError")
        ELSE IF IsRaise(enum_member("ProblemCategory", item_data.category))
            THEN enum_member("ProblemCategory", item_data.category)
        ELSE IF IsRaise(enum_member("ProblemSeverity", item_data.severity))
            THEN enum_member("ProblemSeverity", item_data.severity)
        ELSE CheckItem(item_data.id, item_data.title, item_data.description,
                       enum_member("ProblemCategory", item_data.category),
                       enum_member("ProblemSeverity", item_data.severity),
                       children,
                       DictGet(item_data, "solution_guide", ""),
                       DictGet(item_data, "related_docs", <<>>),
                       DictGet(item_data, "metadata", PyDict(<<>>)),
                       DictGet(item_data, "is_checked", FALSE),
                       DictGet(item_data, "user_notes", ""))

\* ProblemTree.from_dict
from_dict(data) ==
    IF "root" \notin DOMAIN data THEN Raise("KeyError")
    ELSE IF IsRaise(dict_to_item(data.root)) THEN dict_to_item(data.root)
    ELSE ProblemTree(dict_to_item(data.root), DictGet(data, "created_at", ""),
                     DictGet(data, "user_context", PyDict(<<>>)),
                     DictGet(data, "metadata", PyDict(<<>>)))

\* the two assignments of update_item_recursive, without the notes
set_progress_unnoted(item, is_checked, user_notes) ==
    [item EXCEPT !.is_checked = is_checked]

\* item.is_checked = is_checked; item.user_notes = user_notes
set_progress(item, is_checked, user_notes) ==
    [item EXCEPT !.is_checked = is_checked, !.user_notes = user_notes]

\* update_item_recursive of update_checklist_progress: the item afterwards and
\* what the function returned; the loop over the children stops at the first
\* child in which the id was found
RECURSIVE update_item_recursive(_, _, _, _)
RECURSIVE update_children(_, _, _, _)
update_item_recursive(item, item_id, is_checked, user_notes) ==
    IF item.id = item_id
        THEN [found |-> TRUE, item |-> set_progress(item, is_checked, user_notes)]
    ELSE LET below == update_children(item.children, item_id, is_checked, user_notes)
         IN  [found |-> below.found, item |-> [item EXCEPT !.children = below.children]]

update_children(children, item_id, is_checked, user_notes) ==
    IF children = <<>> THEN [found |-> FALSE, children |-> <<>>]
    ELSE LET first == update_item_recursive(Head(children), item_id, is_checked, user_notes)
             rest == update_children(Tail(children), item_id, is_checked, user_notes)
         IN  IF first.found
                 THEN [found |-> TRUE, children |-> <<first.item>> \o Tail(children)]
             ELSE [found |-> rest.found, children |-> <<Head(children)>> \o rest.children]

\* ChecklistGenerator.update_checklist_progress
update_checklist_progress(tree, item_id, is_checked, user_notes) ==
    [tree EXCEPT !.root = update_item_recursive(@, item_id, is_checked, user_notes).item]

\* the items of a list that are not checked
Unchecked(items) == SelectSeq(items, LAMBDA item : ~item.is_checked)

\* get_next_recommended_item asking for the high items before the critical
get_next_recommended_item_high_first(tree) ==
    IF Unchecked(get_items_by_severity(tree, HIGH)) # <<>>
        THEN Unchecked(get_items_by_severity(tree, HIGH))[1]
    ELSE IF Unchecked(get_critical_items(tree)) # <<>>
        THEN Unchecked(get_critical_items(tree))[1]
    ELSE IF Unchecked(get_items_by_severity(tree, MEDIUM)) # <<>>
        THEN Unchecked(get_items_by_severity(tree, MEDIUM))[1]
    ELSE PyNone

\* ChecklistGenerator.get_next_recommended_item
get_next_recommended_item(tree) ==
    IF Unchecked(get_critical_items(tree)) # <<>>
        THEN Unchecked(get_critical_items(tree))[1]
    ELSE IF Unchecked(get_items_by_severity(tree, HIGH)) # <<>>
        THEN Unchecked(get_items_by_severity(tree, HIGH))[1]
    ELSE IF Unchecked(get_items_by_severity(tree, MEDIUM)) # <<>>
        THEN Unchecked(get_items_by_severity(tree, MEDIUM))[1]
    ELSE PyNone

\* the trees of exactly n items whose items are drawn from items, and the
\* sequences of such trees that hold k items in all
RECURSIVE Trees(_, _)
RECURSIVE Forests(_, _)
Trees(n, items) ==
    {[item EXCEPT !.children = children] : item \in items, children \in Forests(n - 1, items)}

Forests(k, items) ==
    IF k = 0 THEN {<<>>}
    ELSE UNION {{<<first>> \o rest : first \in Trees(j, items),
                                     rest \in Forests(k - j, items)} : j \in 1..k}

\* items as a caller builds them: two of them share an id, and every field
\* takes more than one value
ItemTemplates ==
    { CheckItem("a", "Privileged pods", "privileged: true", Member("ProblemCategory", "SECURITY"),
                CRITICAL, <<>>, "", <<>>, PyDict(<<>>), FALSE, ""),
      CheckItem("a", "Network policy", "no default deny", Member("ProblemCategory", "NETWORK"),
                LOW, <<>>, "kubectl get netpol", <<"https://kubernetes.io/docs/">>,
                PyDict(<< <<"source", PyStr("rag")>> >>), TRUE, "seen"),
      CheckItem("b", "Memory limits", "OOMKilled", Member("ProblemCategory", "RESOURCE"),
                HIGH, <<>>, "", <<>>, PyDict(<<>>), FALSE, "later"),
      CheckItem("c", "Rollout", "stuck rollout", Member("ProblemCategory", "DEPLOYMENT"),
                MEDIUM, <<>>, "kubectl rollout status", <<>>, PyDict(<<>>), TRUE, "") }

\* the trees the round trip and the update are made on
ProblemTrees ==
    UNION {{ProblemTree(root, "", PyDict(<<>>), PyDict(<<>>)),
            ProblemTree(root, "2024-01-01T00:00:00",
                        PyDict(<< <<"cluster", PyStr("prod")>> >>),
                        PyDict(<< <<"classification", PyStr("security")>> >>))} :
              root \in UNION {Trees(n, ItemTemplates) : n \in 1..MaxItems}}

\* the ids of generate_checklist are str(uuid.uuid4()): no two items share
\* one.  An id is written as the path of the item from the root.
RECURSIVE WithUniqueIds(_, _)
WithUniqueIds(item, path) ==
    [item EXCEPT !.id = path,
                 !.children = [i \in DOMAIN item.children |->
                                   WithUniqueIds(item.children[i], Append(path, i))]]

\* items of every severity, checked or not
SeverityItems ==
    { CheckItem(<<>>, "item", "", Member("ProblemCategory", "SECURITY"), severity, <<>>, "",
                <<>>, PyDict(<<>>), is_checked, "") :
         severity \in {CRITICAL, HIGH, MEDIUM, LOW}, is_checked \in BOOLEAN }

\* the checklists the recommendations are followed on
ChecklistTrees ==
    { ProblemTree(WithUniqueIds(root, <<>>), "", PyDict(<<>>), PyDict(<<>>)) :
         root \in UNION {Trees(n, SeverityItems) : n \in 1..MaxItems} }

\* a call on a tree: start is the tree the call is made on, tree the tree as
\* it is now; of a followed checklist, before is the tree before the latest
\* round and recommended the item that round was given
ChecklistCall(call, tree, item_id, is_checked, user_notes) ==
    [op |-> call, start |-> tree, tree |-> tree, item_id |-> item_id,
     is_checked |-> is_checked, user_notes |-> user_notes, rounds |-> 0,
     before |-> tree, recommended |-> PyNone, result |-> Pending]

InitChecklist ==
    /\ AnalyzerIdle
    /\ StoreIdle
    /\ CallersIdle
    /\ RagIdle
    /\ CrawlerIdle
    /\ \/ \E tree \in ProblemTrees :
             checklist = ChecklistCall("round_trip", tree, "", FALSE, "")
       \/ \E tree \in ProblemTrees, item_id \in {"a", "b", "c", "d"},
             is_checked \in BOOLEAN, user_notes \in {"", "done"} :
             checklist = ChecklistCall("update_checklist_progress", tree, item_id,
                                       is_checked, user_notes)
       \/ \E tree \in ChecklistTrees :
             checklist = ChecklistCall("follow_recommendations", tree, <<>>, TRUE, "")

\* ProblemTree.from_dict(tree.to_dict())
RoundTrip ==
    /\ checklist # Idle
    /\ checklist.op = "round_trip"
    /\ checklist.result = Pending
    /\ checklist' = [checklist EXCEPT !.result = from_dict(to_dict(checklist.tree))]
    /\ UNCHANGED nonChecklistVars

\* update_checklist_progress: the tree is changed in place and returned
UpdateChecklistProgress ==
    /\ checklist # Idle
    /\ checklist.op = "update_checklist_progress"
    /\ checklist.result = Pending
    /\ LET tree == update_checklist_progress(checklist.tree, checklist.item_id,
                                             checklist.is_checked, checklist.user_notes)
       IN  checklist' = [checklist EXCEPT !.tree = tree, !.result = tree]
    /\ UNCHANGED nonChecklistVars

\* one round of following the checklist: the recommended item is asked for
\* and marked checked; the rounds end when none is recommended
FollowRecommendation ==
    /\ checklist # Idle
    /\ checklist.op = "follow_recommendations"
    /\ checklist.result = Pending
    /\ LET item == get_next_recommended_item(checklist.tree)
       IN  checklist' =
              IF item = PyNone
                  THEN [checklist EXCEPT !.result = [rounds |-> checklist.rounds]]
              ELSE [checklist EXCEPT
                       !.tree = update_checklist_progress(checklist.tree, item.id, TRUE, ""),
                       !.before = checklist.tree,
                       !.recommended = item,
                       !.rounds = @ + 1]
    /\ UNCHANGED nonChecklistVars

NextChecklist == RoundTrip \/ UpdateChecklistProgress \/ FollowRecommendation

SpecChecklist == InitChecklist /\ [][NextChecklist]_vars

\* a user who follows the recommendations goes on until none is given
SpecChecklistFair == SpecChecklist /\ WF_vars(NextChecklist)

----------------------------------------------------------------------------
(* Vocabulary of the properties.                                           *)

Returned == result # Pending

IsAnalysis(r) == "analysis_results" \in DOMAIN r

PodCall == op = "analyze_pod_yaml" /\ Returned

FieldCall == op = "analyze_security_field" /\ Returned

V124 == <<"1", ".", "2", "4">>

\* the document has a spec section: it is a mapping with the key spec
HasSpec(text) == text.load = "ok" /\ text.data.t = "dict" /\ In("spec", text.data)

\* the entries of analysis_results that are field verdicts
FieldVerdicts(r) == SelectSeq(r.analysis_results, LAMBDA x : "status" \in DOMAIN x)

Statuses(r) == {FieldVerdicts(r)[i].status : i \in DOMAIN FieldVerdicts(r)}

IsZero(score) == score.num = 0

\* the terminal result: score 0, no compliance, one critical issue, no
\* warnings and no field verdicts
IsTerminal(r, issue) ==
    /\ IsAnalysis(r)
    /\ IsZero(r.overall_score)
    /\ ~r.policy_compliance[BASELINE]
    /\ ~r.policy_compliance[RESTRICTED]
    /\ r.critical_issues = <<issue>>
    /\ r.warnings = <<>>
    /\ FieldVerdicts(r) = <<>>

----------------------------------------------------------------------------
(* C1.  For a manifest that has a spec, every key of the pod-level         *)
(* securityContext gets one verdict, computed by the rule of the key's     *)
(* field name as for a container's securityContext, and no verdict is      *)
(* named after the securityContext block itself.                           *)

PodContext(text) == GetItem(GetItem(text.data, "spec"), "securityContext")

HasPodContext(text) ==
    /\ HasSpec(text)
    /\ GetItem(text.data, "spec").t = "dict"
    /\ In("securityContext", GetItem(text.data, "spec"))
    /\ PodContext(text).t = "dict"

C1_PodContextKeysGetVerdicts ==
    (PodCall /\ HasPodContext(yaml_content)) =>
        /\ IsAnalysis(result)
        /\ \A i \in DOMAIN PodContext(yaml_content).d :
              \E j \in DOMAIN result.analysis_results :
                 result.analysis_results[j] =
                    analyze_security_field(PodContext(yaml_content).d[i][1],
                                           PodContext(yaml_content).d[i][2],
                                           kubernetes_version)
        /\ \A j \in DOMAIN FieldVerdicts(result) :
              FieldVerdicts(result)[j].field_name # "pod_security_context"

----------------------------------------------------------------------------
(* C2.  analyze never raises: every text yields a PodSecurityAnalysis, and *)
(* a document with no spec section (also an empty document, a scalar or a  *)
(* list) yields the terminal result 'Missing spec section'.                *)

C2_AnalyzeNeverRaises ==
    PodCall =>
        /\ IsAnalysis(result)
        /\ (yaml_content.load = "ok" /\ ~HasSpec(yaml_content))
              => IsTerminal(result, "Missing spec section")

----------------------------------------------------------------------------
(* C3.  A text that cannot be parsed as YAML yields score 0, both          *)
(* compliance flags false, exactly the critical issue 'Invalid YAML        *)
(* format', no warnings and no field verdicts; no exception escapes.       *)

----------------------------------------------------------------------------
(* C4.  For privileged, hostPID, hostIPC and hostNetwork, at every target  *)
(* version, the verdict for true is critical and the verdict for false is  *)
(* secure.                                                                 *)

C4_HostFlagVerdicts ==
    (FieldCall /\ field_name \in {"privileged", "hostPID", "hostIPC", "hostNetwork"}) =>
        /\ value = PyTrue => (~IsRaise(result) /\ result.status = "critical")
        /\ value = PyFalse => (~IsRaise(result) /\ result.status = "secure")

----------------------------------------------------------------------------
(* C5.  The fully restricted manifest, analyzed against 1.24, has          *)
(* overallScore 100 and complies with Restricted.                          *)

C5_RestrictedScenarioScores100 ==
    (PodCall /\ kubernetes_version = V124
       /\ yaml_content \in {Text(m) : m \in RestrictedManifests}) =>
        /\ IsAnalysis(result)
        /\ result.overall_score = Fraction(100, 1)
        /\ result.policy_compliance[RESTRICTED]

----------------------------------------------------------------------------
(* C6.  In every analysis of a manifest that has a spec, Baseline holds    *)
(* exactly when no verdict is critical and Restricted exactly when no      *)
(* verdict is critical or warning; the other statuses fail neither flag.   *)

C6_ComplianceFromVerdicts ==
    (PodCall /\ IsAnalysis(result) /\ HasSpec(yaml_content)) =>
        /\ result.policy_compliance[BASELINE] = ("critical" \notin Statuses(result))
        /\ result.policy_compliance[RESTRICTED] =
              (Statuses(result) \cap {"critical", "warning"} = {})

C6_Witness ==
    /\ PodCall /\ IsAnalysis(result) /\ HasSpec(yaml_content)
    /\ "warning" \in Statuses(result)
    /\ "error" \in Statuses(result)
    /\ "critical" \notin Statuses(result)
    /\ result.policy_compliance[BASELINE]
    /\ ~result.policy_compliance[RESTRICTED]

----------------------------------------------------------------------------
(* C7.  In every analysis of a manifest that has a spec, the score is      *)
(* 100 * secure / total, lies in [0, 100], is 0 without verdicts, and is   *)
(* 100 exactly when there is a verdict and every verdict is secure.        *)

SecureCount(r) ==
    Cardinality({i \in DOMAIN FieldVerdicts(r) : FieldVerdicts(r)[i].status = "secure"})

C7_ScoreFromVerdicts ==
    (PodCall /\ IsAnalysis(result) /\ HasSpec(yaml_content)) =>
        LET total == Len(FieldVerdicts(result))
            secure == SecureCount(result)
            score == result.overall_score
        IN  /\ score.den > 0
            /\ score.num * total = 100 * secure * score.den
            /\ 0 <= score.num /\ score.num <= 100 * score.den
            /\ total = 0 => score.num = 0
            /\ (score.num = 100 * score.den) <=> (total >= 1 /\ secure = total)

C7_Witness ==
    /\ PodCall /\ IsAnalysis(result) /\ HasSpec(yaml_content)
    /\ Len(FieldVerdicts(result)) = 2
    /\ SecureCount(result) = 1
    /\ result.overall_score = Fraction(50, 1)

----------------------------------------------------------------------------
(* C8.  The runAsUser rule yields critical for 0, secure for every integer *)
(* greater than 0 and warning for every other value (null, negative        *)
(* integers, booleans, strings and other non-integers).                    *)

C8_RunAsUserRule ==
    (FieldCall /\ field_name = "runAsUser") =>
        /\ ~IsRaise(result)
        /\ result.status =
              IF value = PyInt(0) THEN "critical"
              ELSE IF value.t = "int" /\ value.i > 0 THEN "secure"
              ELSE "warning"

----------------------------------------------------------------------------
(* C9.  The capabilities rule yields secure whenever drop contains "ALL"   *)
(* (asking to review the added capabilities when add is not empty) and     *)
(* warning in every other case: an empty or absent value, no drop list, or *)
(* a drop list without "ALL".  Stated for the values that are null or a    *)
(* mapping.                                                                *)

\* drop holds "ALL"
DropsALL(v) ==
    /\ v.t = "dict"
    /\ In("drop", v)
    /\ Iterable(GetItem(v, "drop"))
    /\ In("ALL", GetItem(v, "drop"))

AddsSome(v) ==
    /\ v.t = "dict"
    /\ In("add", v)
    /\ GetItem(v, "add").t = "list"
    /\ GetItem(v, "add").l # <<>>

C9_CapabilitiesRule ==
    (FieldCall /\ field_name = "capabilities" /\ value.t \in {"none", "dict"}) =>
        /\ ~IsRaise(result)
        /\ result.status = IF DropsALL(value) THEN "secure" ELSE "warning"
        /\ (DropsALL(value) /\ AddsSome(value)) =>
              result.recommendation =
                 "Good security practice - review if all added capabilities are necessary"

----------------------------------------------------------------------------
(* C10.  runAsNonRoot and readOnlyRootFilesystem are secure for true and   *)
(* warning for false, allowPrivilegeEscalation is secure for false and     *)
(* warning for true, and for all three every value that is no boolean,     *)
(* null included, is an error whose message demands explicit setting.      *)

ExplicitMessage(name) ==
    CASE name = "runAsNonRoot" -> "runAsNonRoot should be explicitly set to true or false"
      [] name = "allowPrivilegeEscalation" -> "allowPrivilegeEscalation should be explicitly set"
      [] name = "readOnlyRootFilesystem" -> "readOnlyRootFilesystem should be explicitly set"

C10_BooleanToggleRules ==
    (FieldCall /\ field_name \in {"runAsNonRoot", "readOnlyRootFilesystem",
                                  "allowPrivilegeEscalation"}) =>
        LET secureValue == IF field_name = "allowPrivilegeEscalation" THEN PyFalse ELSE PyTrue
        IN  /\ ~IsRaise(result)
            /\ result.field_name = field_name
            /\ value = secureValue => result.status = "secure"
            /\ (value.t = "bool" /\ value # secureValue) => result.status = "warning"
            /\ value.t # "bool" =>
                  (result.status = "error" /\ result.message = ExplicitMessage(field_name))

C10_Witness ==
    /\ FieldCall
    /\ field_name = "allowPrivilegeEscalation"
    /\ value = PyNone
    /\ result.status = "error"

----------------------------------------------------------------------------
(* C11.  Two analyses of the same manifest text for the same version       *)
(* return equal results, the recommendations in the same order, whatever   *)
(* happened between them.  (Violated: the order of the recommendations is  *)
(* that of a set of strings, which follows the hash seed of the process.)  *)

C11_RepeatedAnalysisIsIdentical ==
    (result # Pending /\ result2 # Pending) => result2 = result

----------------------------------------------------------------------------
(* C12.  The policy type of 1.20 and 1.21 is PodSecurityPolicy, of 1.22    *)
(* and 1.23 PodSecurityStandardsAlpha, and of every other version string,  *)
(* registered or not, well-formed or not, PodSecurityStandardsStable; the  *)
(* lookup raises for no string.                                            *)

PolicyTypeCall == op = "get_policy_type_for_version" /\ Returned

C12_PolicyTypeForVersion ==
    PolicyTypeCall =>
        /\ ~IsRaise(result)
        /\ result.policy_type =
              IF kubernetes_version \in {<<"1", ".", "2", "0">>, <<"1", ".", "2", "1">>}
                  THEN POD_SECURITY_POLICY
              ELSE IF kubernetes_version \in {<<"1", ".", "2", "2">>, <<"1", ".", "2", "3">>}
                  THEN POD_SECURITY_STANDARDS_ALPHA
              ELSE POD_SECURITY_STANDARDS_STABLE
        /\ result.policy_type = result.policy_type_str

C12_Witness ==
    /\ PolicyTypeCall
    /\ kubernetes_version = <<"1", ".", "2", "0", ".", "3">>
    /\ result.policy_type = POD_SECURITY_STANDARDS_STABLE

----------------------------------------------------------------------------
(* Vocabulary of the store properties.                                     *)

\* the store call just made is the named one
StoreCall(name) == "op" \in DOMAIN store_result /\ store_result.op = name

StoreRaised == "raise" \in DOMAIN store_result

Searched == StoreCall("search") /\ ~StoreRaised

\* the hits of the sub-queries of the search just made
SubQueryHits ==
    store_result.common_results \o store_result.version_results \o store_result.docs_results

----------------------------------------------------------------------------
(* C13.  A search returns hits of its sub-queries only, each sub-query     *)
(* giving at most n_results of them; the returned hits are in order of     *)
(* non-decreasing distance, they are the first 2 * n_results of the merged *)
(* hits and never more, and no hit left out is nearer than a returned one. *)

C13_SearchMergesAndRanks ==
    Searched =>
        LET n == store_result.n_results
            hits == store_result.hits
            leftOut == Range(SubQueryHits) \ Range(hits)
        IN  /\ Len(store_result.common_results) <= n
            /\ Len(store_result.version_results) <= n
            /\ Len(store_result.docs_results) <= n
            /\ Range(hits) \subseteq Range(SubQueryHits)
            /\ \A i, j \in DOMAIN hits : i < j => hits[i] # hits[j]
            /\ IsSortedByDistance(hits)
            /\ Len(hits) <= 2 * n
            /\ Len(hits) = Min(2 * n, Len(SubQueryHits))
            /\ \A h \in leftOut : \A i \in DOMAIN hits : hits[i].distance <= h.distance

\* three sub-queries gave a hit each, the nearest came last and is returned
\* first, and the cut dropped one of the others
C13_Witness ==
    /\ Searched
    /\ store_result.n_results = 1
    /\ Len(SubQueryHits) = 3
    /\ Len(store_result.hits) = 2
    /\ store_result.hits[1].collection = DOCS_COLLECTION
    /\ SubQueryHits[1].distance > store_result.hits[1].distance

----------------------------------------------------------------------------
(* C14.  No search fails because of one partition: when the backend raises *)
(* while the version collection is opened or while one collection is       *)
(* queried, that partition gives no hit and the hits of the others are     *)
(* returned.  (Violated: the opening of the version collection is outside  *)
(* the guarded query.)                                                     *)

C14_SearchSurvivesPartitionFailure ==
    StoreCall("search") =>
        /\ ~StoreRaised
        /\ "common" \in store_result.raising => store_result.common_results = <<>>
        /\ "version" \in store_result.raising => store_result.version_results = <<>>
        /\ "docs" \in store_result.raising => store_result.docs_results = <<>>

----------------------------------------------------------------------------
(* C15.  When reset_all_collections returned and no deletion failed, the   *)
(* common collection, the documentation collection and every version       *)
(* collection of the backend hold no chunk, the version collections that   *)
(* an earlier process created included.  (Violated: only the version       *)
(* collections this instance has opened are deleted.)                      *)

C15_ResetEmptiesEveryCollection ==
    (StoreCall("reset_all_collections") /\ ~StoreRaised
        /\ store_result.deletion_errors = {}) =>
        \A name \in DOMAIN collections : collections[name] = {}

----------------------------------------------------------------------------
(* C18.  A chunk ingested for version V is returned by no search for a     *)
(* version string W other than V.  (Violated: versions that differ in a    *)
(* dot and an underscore share one collection.)                            *)

C18_SearchReturnsOnlyItsVersion ==
    Searched =>
        \A i \in DOMAIN store_result.hits :
            store_result.hits[i].metadata.collection_type = "version_specific" =>
                store_result.hits[i].metadata.version = store_result.version

----------------------------------------------------------------------------
(* Vocabulary of the endpoint properties.                                  *)

RagAnswered == rag_response # Pending

LevelAccepted == Lower(rag_request.target_policy_level) \in AcceptedLevels

\* the PolicyLevel of the request
TargetLevel ==
    CASE Lower(rag_request.target_policy_level) = "restricted" -> RESTRICTED
      [] Lower(rag_request.target_policy_level) = "baseline" -> BASELINE
      [] Lower(rag_request.target_policy_level) = "privileged" -> PRIVILEGED

\* the response reports an exception of the named step
FailedAt(step) == "step" \in DOMAIN rag_response /\ rag_response.step = step

----------------------------------------------------------------------------
(* C16.  When the narrative backend is unavailable (no credentials when    *)
(* the system is constructed, no client, or a failing generation call) an  *)
(* analysis that asks for the narrative still returns the analysis and     *)
(* the retrieval context, and its llm_korean_advice and fixed_yaml are     *)
(* null.  (Violated: without credentials the system is not constructed,    *)
(* and the other failures are returned as "[Error] ..." texts.)            *)

C16_NarrativeFailureLeavesFieldsNull ==
    (/\ RagAnswered
     /\ rag_request.use_llm
     /\ Lower(rag_request.target_policy_level) \in {"restricted", "baseline"}
     /\ llm_backend # "available"
     /\ ~FailedAt("analysis")
     /\ ~FailedAt("security_context")) =>
        /\ rag_response.status_code = 200
        /\ IsAnalysis(rag_response.body.analysis)
        /\ "security_context" \in DOMAIN rag_response.body
        /\ rag_response.body.llm_korean_advice = PyNone
        /\ rag_response.body.fixed_yaml = PyNone

----------------------------------------------------------------------------
(* C17.  For each accepted target policy level, restricted, baseline and   *)
(* privileged, and every manifest, the analysis returns a result with the  *)
(* analysis and the compliance status of that level: no accepted level     *)
(* makes the call fail.  (Violated: the analysis has no compliance entry   *)
(* for privileged.)                                                        *)

C17_EveryAcceptedLevelIsAnswered ==
    (/\ RagAnswered
     /\ LevelAccepted
     /\ llm_backend # "no_credentials"
     /\ ~FailedAt("analysis")
     /\ ~FailedAt("security_context")) =>
        /\ rag_response.status_code = 200
        /\ IsAnalysis(rag_response.body.analysis)
        /\ rag_response.body.target_policy_level = TargetLevel
        /\ rag_response.body.security_advice.compliance_status.target_level = TargetLevel

----------------------------------------------------------------------------
(* C19.  When threads ask for the collection of the same version at the    *)
(* same time, the request to create or get it is issued by one of them     *)
(* only, and all of them return with the same handle.  (Violated: nothing  *)
(* keeps a second thread from testing the cache before the first has       *)
(* filled it.)                                                             *)

C19_VersionCollectionOpenedOnce ==
    /\ \A i, j \in DOMAIN requests : requests[i].version = requests[j].version => i = j
    /\ \A t, u \in DOMAIN callers :
          (/\ callers[t].pc = "done"
           /\ callers[u].pc = "done"
           /\ callers[t].version = callers[u].version) =>
              callers[t].collection = callers[u].collection

----------------------------------------------------------------------------
(* C20.  The fetch of a page makes at most max_retries HTTP attempts and   *)
(* waits delay * k after the k-th failed attempt that is followed by       *)
(* another; a page whose attempts all fail, whose content type is not      *)
(* supported or whose parsing raises is skipped and the crawl goes on; no  *)
(* failure of a page aborts crawl_version, which always terminates and     *)
(* returns the pages collected so far.                                     *)

Crawling == crawler # Idle

C20_PageFetchIsBounded ==
    Crawling =>
        /\ crawler.attempts <= max_retries
        /\ Len(crawler.sleeps) <= crawler.attempts
        /\ Len(crawler.sleeps) < max_retries
        /\ \A k \in DOMAIN crawler.sleeps : crawler.sleeps[k] = crawler.delay * k
        /\ crawler.pc # "aborted"
        /\ crawler.logged = "attempts" =>
              (crawler.attempts = max_retries /\ Len(crawler.sleeps) = max_retries - 1)
        /\ crawler.skipped \subseteq crawler.visited_urls
        /\ \A i \in DOMAIN crawler.crawled_content :
              crawler.crawled_content[i].url \in crawler.visited_urls \ crawler.skipped
        /\ crawler.pc = "done" =>
              /\ ~IsRaise(crawler.result)
              /\ crawler.version \notin {<<"1", ".", "2", "1">>, <<"1", ".", "9">>} =>
                    crawler.result.pages = crawler.crawled_content

C20_CrawlNeverAbortsAndTerminates ==
    [](C20_PageFetchIsBounded) /\ <>(Crawling /\ crawler.pc = "done")

\* the first page was skipped and the second collected; the last page was
\* given up after max_retries attempts and two waits, and the crawl ended
\* with the pages collected
C20_Witness ==
    /\ Crawling
    /\ crawler.pc = "done"
    /\ "pod_security_standards" \in crawler.skipped
    /\ \E i \in DOMAIN crawler.result.pages :
          crawler.result.pages[i].url = "security_context"
    /\ crawler.url = "service_accounts"
    /\ crawler.logged = "attempts"
    /\ crawler.attempts = max_retries
    /\ crawler.sleeps = <<crawler.delay, crawler.delay * 2>>
    /\ crawler.delay = 2

----------------------------------------------------------------------------
(* C21.  Between any two consecutive HTTP requests of a crawl (attempts on *)
(* a page, retries, the fetch of the index) the crawler has slept for at   *)
(* least the configured delay.                                             *)

C21_DelayBetweenRequests ==
    Crawling => (crawler.gap = -1 \/ crawler.gap >= crawler.delay)

----------------------------------------------------------------------------
(* C22.  ProblemTree.from_dict(t.to_dict()) has the fields of t: the same  *)
(* created_at, user_context and metadata and an item tree of the same      *)
(* shape and child order whose items agree in every field; to_dict of the  *)
(* reconstruction is to_dict of t.                                         *)

ChecklistDone(call) ==
    /\ "op" \in DOMAIN checklist
    /\ checklist.op = call
    /\ checklist.result # Pending

C22_RoundTripKeepsFields ==
    ChecklistDone("round_trip") =>
        /\ ~IsRaise(checklist.result)
        /\ checklist.result.created_at = checklist.tree.created_at
        /\ checklist.result.user_context = checklist.tree.user_context
        /\ checklist.result.metadata = checklist.tree.metadata
        /\ checklist.result.root = checklist.tree.root
        /\ to_dict(checklist.result) = to_dict(checklist.tree)

\* a tree of a root with two children was rebuilt; the root is checked and
\* annotated, the second child is not, and the tree has a context
C22_Witness ==
    /\ ChecklistDone("round_trip")
    /\ ~IsRaise(checklist.result)
    /\ Len(checklist.tree.root.children) = 2
    /\ checklist.tree.created_at # ""
    /\ checklist.result.root.is_checked
    /\ checklist.result.root.user_notes = "seen"
    /\ checklist.result.root.category = Member("ProblemCategory", "NETWORK")
    /\ checklist.result.root.children[1].id = "c"
    /\ checklist.result.root.children[2].severity = HIGH
    /\ ~checklist.result.root.children[2].is_checked
    /\ checklist.result.user_context = PyDict(<< <<"cluster", PyStr("prod")>> >>)

----------------------------------------------------------------------------
(* C23.  For a catalog field whose deprecated_in is set, the verdict is    *)
(* 'deprecated' for every value when the target version is numerically at  *)
(* least deprecated_in, and the verdict of the field's own rule when it is *)
(* lower; a field name that is not in the catalog yields 'unknown' for     *)
(* every version.                                                          *)

\* <<major, minor, patch>> of a well-formed version, a missing patch read as 0
VersionTuple(version) ==
    LET p == Split(version, ".", <<>>)
    IN  <<IntValue(p[1]), IntValue(p[2]), IF Len(p) >= 3 THEN IntValue(p[3]) ELSE 0>>

\* major.minor or major.minor.patch, of decimal digits
WellFormed(version) ==
    LET p == Split(version, ".", <<>>)
    IN  Len(p) \in {2, 3} /\ \A i \in DOMAIN p : AllDigits(p[i])

\* the order of the integer tuples
TupleLess(a, b) ==
    \/ a[1] < b[1]
    \/ a[1] = b[1] /\ a[2] < b[2]
    \/ a[1] = b[1] /\ a[2] = b[2] /\ a[3] < b[3]

DeprecatedFieldCall ==
    /\ FieldCall
    /\ deprecation # NoDeprecation
    /\ WellFormed(kubernetes_version)

C23_DeprecationShortCircuits ==
    /\ (DeprecatedFieldCall /\ field_name = deprecation.field_name) =>
          IF TupleLess(VersionTuple(kubernetes_version),
                       VersionTuple(deprecation.deprecated_in))
              THEN result = Dispatch(field_name, value,
                                     security_fields_with(deprecation)[field_name])
          ELSE ~IsRaise(result) /\ result.status = "deprecated" /\ result.value = value
    /\ (FieldCall /\ field_name \notin DOMAIN security_fields) =>
          (~IsRaise(result) /\ result.status = "unknown")

\* hostPID is deprecated in 1.10 and true; against 1.9 it is critical
C23_Witness ==
    /\ DeprecatedFieldCall
    /\ deprecation = [field_name |-> "hostPID", deprecated_in |-> <<"1", ".", "1", "0">>]
    /\ field_name = "hostPID"
    /\ value = PyTrue
    /\ kubernetes_version = <<"1", ".", "9">>
    /\ result.status = "critical"

----------------------------------------------------------------------------
(* C24.  _version_compare is numeric per component, a missing component    *)
(* read as 0: its sign is the order of the tuples (major, minor, patch);   *)
(* compare("1.9", "1.10") < 0, compare("1.24", "1.24.0") = 0, and          *)
(* compare(a, b) = -compare(b, a) for well-formed a and b.                 *)

CompareCall ==
    /\ op = "version_compare"
    /\ Returned
    /\ WellFormed(kubernetes_version)
    /\ WellFormed(deprecation.deprecated_in)

C24_VersionCompareIsNumeric ==
    /\ CompareCall =>
          LET a == VersionTuple(kubernetes_version)
              b == VersionTuple(deprecation.deprecated_in)
          IN  /\ result = PyInt(IF TupleLess(a, b) THEN -1 ELSE IF TupleLess(b, a) THEN 1 ELSE 0)
              /\ result.i = 0 - version_compare(deprecation.deprecated_in, kubernetes_version)
    /\ version_compare(<<"1", ".", "9">>, <<"1", ".", "1", "0">>) < 0
    /\ version_compare(<<"1", ".", "2", "4">>, <<"1", ".", "2", "4", ".", "0">>) = 0

\* 9.24 was compared with 9.24.0 and found equal
C24_Witness ==
    /\ CompareCall
    /\ kubernetes_version = <<"9", ".", "2", "4">>
    /\ deprecation.deprecated_in = <<"9", ".", "2", "4", ".", "0">>
    /\ result = PyInt(0)

----------------------------------------------------------------------------
(* C25.  In every analysis result, the terminal results included, Baseline *)
(* holds exactly when critical_issues is empty and Restricted exactly when *)
(* critical_issues and warnings are both empty, so Restricted implies      *)
(* Baseline; for a manifest with a spec, critical_issues has one entry per *)
(* critical verdict and warnings one entry per warning verdict.            *)

VerdictCount(r, status) ==
    Len(SelectSeq(FieldVerdicts(r), LAMBDA verdict : verdict.status = status))

C25_ComplianceMatchesIssueLists ==
    (PodCall /\ IsAnalysis(result)) =>
        /\ result.policy_compliance[BASELINE] = (result.critical_issues = <<>>)
        /\ result.policy_compliance[RESTRICTED] =
              (result.critical_issues = <<>> /\ result.warnings = <<>>)
        /\ result.policy_compliance[RESTRICTED] => result.policy_compliance[BASELINE]
        /\ HasSpec(yaml_content) =>
              /\ Len(result.critical_issues) = VerdictCount(result, "critical")
              /\ Len(result.warnings) = VerdictCount(result, "warning")

\* one critical and one warning verdict, one entry in each list, and neither
\* compliance flag
C25_Witness ==
    /\ PodCall /\ IsAnalysis(result) /\ HasSpec(yaml_content)
    /\ VerdictCount(result, "critical") = 1
    /\ VerdictCount(result, "warning") = 1
    /\ Len(result.critical_issues) = 1
    /\ Len(result.warnings) = 1
    /\ ~result.policy_compliance[BASELINE]
    /\ ~result.policy_compliance[RESTRICTED]

----------------------------------------------------------------------------
(* C26.  A search adds, removes and changes no chunk of any collection; it *)
(* changes the store only when it asks for a version that has no           *)
(* collection yet, whose empty collection it creates, and the statistics   *)
(* then list that version with count 0.                                    *)

\* a search was made in this step and returned
SearchStep ==
    /\ store_result = Idle
    /\ "op" \in DOMAIN store_result'
    /\ store_result'.op = "search"
    /\ "raise" \notin DOMAIN store_result'

\* the store has opened no collection for the version and holds no chunk of it
NoCollectionYet(version) ==
    /\ version \notin DOMAIN version_collections
    /\ \A name \in DOMAIN collections : \A c \in collections[name] : c.version # version

C26_SearchIsReadOnly ==
    [][SearchStep =>
          /\ \A name \in DOMAIN collections :
                name \in DOMAIN collections' /\ collections'[name] = collections[name]
          /\ \A name \in DOMAIN collections' \ DOMAIN collections :
                /\ collections'[name] = {}
                /\ name = collection_name(store_result'.version)
          /\ (store_result'.version # NoStoreVersion
                 /\ NoCollectionYet(store_result'.version)) =>
                LET stats == get_collection_statistics(version_collections', collections')
                IN  /\ store_result'.version \in DOMAIN stats.version_collections
                    /\ stats.version_collections[store_result'.version].count = 0]_vars

----------------------------------------------------------------------------
(* C27.  When the deletion of a collection fails during a reset, the       *)
(* deletion of the remaining collections is still attempted; the reset     *)
(* does not raise, the cache of version collections is empty afterwards,   *)
(* the common and the docs collection exist, and a collection whose        *)
(* deletion failed keeps its chunks.                                       *)

ResetStep ==
    /\ store_result = Idle
    /\ "op" \in DOMAIN store_result'
    /\ store_result'.op = "reset_all_collections"

C27_ResetSurvivesFailedDeletion ==
    [][ResetStep =>
          LET attempted == {COMMON_COLLECTION, DOCS_COLLECTION}
                              \cup Range(CachedNames(version_collections))
              failed == store_result'.raising
          IN  /\ "raise" \notin DOMAIN store_result'
              /\ version_collections' = <<>>
              /\ {COMMON_COLLECTION, DOCS_COLLECTION} \subseteq DOMAIN collections'
              /\ failed \subseteq store_result'.deletion_errors
              /\ store_result'.deletion_errors \subseteq attempted
              /\ \A name \in failed \cap DOMAIN collections :
                    name \in DOMAIN collections' /\ collections'[name] = collections[name]
              /\ \A name \in attempted \ failed :
                    IF name \in {COMMON_COLLECTION, DOCS_COLLECTION}
                        THEN collections'[name] = {}
                    ELSE name \notin DOMAIN collections']_vars

\* the deletion of the common collection failed: it kept its chunk, while
\* the docs collection is empty and no version collection is cached
C27_Witness ==
    /\ "op" \in DOMAIN store_result
    /\ store_result.op = "reset_all_collections"
    /\ store_result.raising = {COMMON_COLLECTION}
    /\ store_result.deletion_errors = {COMMON_COLLECTION}
    /\ collections[COMMON_COLLECTION] # {}
    /\ collections[DOCS_COLLECTION] = {}
    /\ version_collections = <<>>

----------------------------------------------------------------------------
(* C28.  Within one crawler instance no URL is requested by more than one  *)
(* page crawl between two clears of visited_urls: a URL is marked visited  *)
(* before its first attempt, so a page that failed or was skipped is not   *)
(* fetched again.  crawl_multiple_versions clears the set after each       *)
(* version; consecutive crawl_version calls of the build script do not, so *)
(* a later call skips every URL an earlier call visited.                   *)

NoDuplicates(s) == \A i, j \in DOMAIN s : i # j => s[i] # s[j]

C28_UrlFetchedOncePerVisitedSet ==
    Crawling =>
        /\ NoDuplicates(crawler.earlier \o crawler.fetched)
        /\ Range(crawler.fetched) \subseteq crawler.visited_urls
        /\ crawler.skipped \subseteq crawler.visited_urls
        /\ crawler.pc = "attempt" => crawler.url \in crawler.visited_urls
        /\ (crawler.driver = "crawl_multiple_versions" /\ crawler.pc = "start") =>
              (crawler.visited_urls = {} /\ crawler.earlier = <<>>)
        /\ crawler.driver = "build_documentation_collection" =>
              /\ Range(crawler.earlier) \subseteq crawler.visited_urls
              /\ Range(crawler.earlier) \cap Range(crawler.fetched) = {}

\* the second crawl_version call of the build script on a version whose pages
\* the first call requested: it requested no page and returned none
C28_Witness ==
    /\ Crawling
    /\ crawler.driver = "build_documentation_collection"
    /\ crawler.pc = "done"
    /\ crawler.versions = <<>>
    /\ crawler.version = <<"1", ".", "2", "8">>
    /\ Len(crawler.earlier) >= Len(security_urls)
    /\ crawler.fetched = <<>>
    /\ crawler.result = [pages |-> <<>>]

----------------------------------------------------------------------------
(* C29.  update_checklist_progress sets is_checked and user_notes on the   *)
(* first item in pre-order whose id is the given one and on no other item, *)
(* and changes no other field and not the shape of the tree; when no item  *)
(* has the id, the tree is unchanged.  The tree is returned.               *)

\* the item with is_checked and user_notes blanked, in it and below it
RECURSIVE WithoutProgress(_)
WithoutProgress(item) ==
    [item EXCEPT !.is_checked = FALSE, !.user_notes = "",
                 !.children = [i \in DOMAIN item.children |->
                                   WithoutProgress(item.children[i])]]

Progress(item) == <<item.is_checked, item.user_notes>>

C29_UpdateChangesOneItem ==
    ChecklistDone("update_checklist_progress") =>
        LET before == get_all_items(checklist.start)
            after == get_all_items(checklist.tree)
            matches == {i \in DOMAIN before : before[i].id = checklist.item_id}
        IN  /\ checklist.result = checklist.tree
            /\ WithoutProgress(checklist.tree.root) = WithoutProgress(checklist.start.root)
            /\ checklist.tree = [checklist.start EXCEPT !.root = checklist.tree.root]
            /\ Len(after) = Len(before)
            /\ matches = {} => checklist.tree = checklist.start
            /\ \A i \in DOMAIN before :
                  IF i \in matches /\ \A j \in matches : i <= j
                      THEN Progress(after[i]) = <<checklist.is_checked, checklist.user_notes>>
                  ELSE Progress(after[i]) = Progress(before[i])

\* two children share the id: the first was checked and annotated, the
\* second, which was checked before, is as it was
C29_Witness ==
    /\ ChecklistDone("update_checklist_progress")
    /\ checklist.item_id = "a"
    /\ ~checklist.is_checked
    /\ checklist.user_notes = "done"
    /\ checklist.start.root.id = "b"
    /\ Len(checklist.start.root.children) = 2
    /\ checklist.start.root.children[1].id = "a"
    /\ checklist.start.root.children[1].is_checked
    /\ checklist.start.root.children[2].id = "a"
    /\ checklist.start.root.children[2].is_checked
    /\ Progress(checklist.tree.root.children[1]) = <<FALSE, "done">>
    /\ Progress(checklist.tree.root.children[2]) = <<TRUE, "seen">>

----------------------------------------------------------------------------
(* C30.  On a tree of pairwise distinct ids, every round of taking the     *)
(* recommended item and marking it checked raises the checked count by     *)
(* one; the recommended item was unchecked, of severity critical, high or  *)
(* medium, and no unchecked item of a higher severity was left; after at   *)
(* most as many rounds as the tree has items none is recommended, and then *)
(* every critical, high and medium item is checked.                        *)

Following == "op" \in DOMAIN checklist /\ checklist.op = "follow_recommendations"

DistinctIds(tree) == NoDuplicates([i \in DOMAIN get_all_items(tree) |-> get_all_items(tree)[i].id])

SeverityRank(severity) ==
    CASE severity = CRITICAL -> 3 [] severity = HIGH -> 2 [] severity = MEDIUM -> 1
      [] OTHER -> 0

C30_RoundsAreSound ==
    (Following /\ DistinctIds(checklist.start)) =>
        /\ get_checked_count(checklist.tree.root)
              = get_checked_count(checklist.start.root) + checklist.rounds
        /\ checklist.rounds <= get_total_count(checklist.start.root)
        /\ checklist.rounds > 0 =>
              /\ ~checklist.recommended.is_checked
              /\ SeverityRank(checklist.recommended.severity) > 0
              /\ \E i \in DOMAIN get_all_items(checklist.before) :
                    get_all_items(checklist.before)[i] = checklist.recommended
              /\ \A i \in DOMAIN get_all_items(checklist.before) :
                    LET item == get_all_items(checklist.before)[i]
                    IN  ~item.is_checked =>
                           SeverityRank(item.severity)
                              <= SeverityRank(checklist.recommended.severity)
        /\ checklist.result # Pending =>
              /\ get_next_recommended_item(checklist.tree) = PyNone
              /\ \A i \in DOMAIN get_all_items(checklist.tree) :
                    LET item == get_all_items(checklist.tree)[i]
                    IN  SeverityRank(item.severity) > 0 => item.is_checked

C30_RecommendationsEnd ==
    [](C30_RoundsAreSound)
      /\ <>("result" \in DOMAIN checklist /\ checklist.result # Pending)

\* a tree of three items was followed for two rounds, the critical item
\* before the medium one; its unchecked item of severity low is left
C30_Witness ==
    /\ Following
    /\ checklist.result = [rounds |-> 2]
    /\ get_total_count(checklist.start.root) = 3
    /\ get_checked_count(checklist.start.root) = 0
    /\ checklist.recommended.severity = MEDIUM
    /\ checklist.recommended.id = <<>>
    /\ \E i \in DOMAIN get_all_items(checklist.tree) :
          /\ get_all_items(checklist.tree)[i].severity = LOW
          /\ ~get_all_items(checklist.tree)[i].is_checked
    /\ \E i \in DOMAIN get_all_items(checklist.tree) :
          /\ get_all_items(checklist.tree)[i].severity = CRITICAL
          /\ get_all_items(checklist.tree)[i].is_checked

====
